---- MODULE Spec2Model ----
(***************************************************************************)
(* Model of the event distribution and ingestion pipeline of the           *)
(* crypto-trading-agent repository:                                        *)
(*   - EventBus               (src/src/core/events.py)                     *)
(*   - PriceCollector         (src/src/data/collectors/price_collector.py) *)
(*   - DataProvider / DexScreenerProvider rate accounting                  *)
(*                            (src/src/data/providers/{base,dexscreener})  *)
(*   - DataCleaner.validate_price_data (src/src/data/processors/cleaner)   *)
(*                                                                         *)
(* The program runs on one asyncio event loop.  Every action below is one  *)
(* atomic segment of a coroutine, from one suspension point (await that    *)
(* yields) to the next; callers of the synchronous methods (subscribe,     *)
(* unsubscribe, add/remove watchlist, stop) run between those segments.    *)
(***************************************************************************)
EXTENDS Integers, Sequences, FiniteSets, TLC

(***************************************************************************)
(* Bounds of the model.                                                    *)
(***************************************************************************)
MaxOps == 6          \* calls made on the bus from outside its dispatch loop
NumLoops == 2        \* dispatch-loop tasks that can exist

MaxColOps == 4       \* calls made on the collector from outside its loop
MaxTicks == 2        \* times the clock is seen to advance during an await
RateLimit == 2       \* provider.rate_limit (settings.apis.dexscreener_rate_limit)
TickSeconds == 30    \* seconds by which the clock advances at once
StartTime == 100     \* datetime.now().timestamp() when the process starts
MaxCalls == 3        \* get_token_price calls made directly on a provider
MaxIncrs == 3        \* calls made directly on the rate counters of the cache
MaxRequests == 3     \* HTTP requests that reach the rate-limit middleware
Ceiling == 2         \* RateLimitMiddleware.requests_per_minute
AppRequests == 1     \* HTTP requests the application serves while it is up
MaxAmount == 1       \* largest number in a record given to the validator
WrittenPrice == 1    \* what a handler stores under a key of event.data
MaxBurst == 4        \* requests one client sends to the rate-limit middleware
MaxCacheOps == 1     \* commands sent through the cache's general functions
MaxIncrAmount == 2   \* largest amount given to RedisCache.incr

Types == {"price_update", "order_created"}
Handlers == {"h1", "h2"}
Loops == 1..NumLoops
Addrs == {"0xAA", "0xBB"}
\* PriceCollector.providers as __init__ builds it, in the order of the dict
ProviderNames == <<"dexscreener">>
NumProviders == Len(ProviderNames)
Providers == 1..NumProviders
Prices == {0, 2}     \* Decimal(str(pair.get("priceUsd", 0))) of a payload

\* base.py:63  the counter is reset when more than 60 s passed since the last reset
RateWindow == 60
\* price_collector.py:30
CollectionInterval == 60

VARIABLES
    handlers,     \* EventBus._handlers: dict event_type -> list of handlers
    queue,        \* EventBus._queue: pending events, oldest first
    putters,      \* events of publishers suspended inside Queue.put
    running,      \* EventBus._running
    bpc,          \* per dispatch-loop task: position in EventBus.start
    cur,          \* per dispatch-loop task: the event it dequeued
    tasks,        \* per dispatch-loop task: the coroutines gathered for cur
    loopCap,      \* how many dispatch-loop tasks the scenario creates
    caps,         \* the scenario: limits on bus calls, collector calls,
                  \* cycles and ticks, the keys of PriceCollector.providers
                  \* and what the providers answer
    \* history of the run (not program state)
    pubs,         \* per published event id: its type and who was unsubscribed
    delivered,    \* handler invocations, in the order they began
    completed,    \* dispatches that _process_event finished
    unsubscribed, \* <<type, handler>> whose latest call was unsubscribe
    regCount,     \* <<type, handler>> -> subscribe calls not yet undone
    stopCalled,   \* stop() has been called on the bus
    busStops,     \* stop() calls made on the bus so far
    nOps          \* calls made on the bus so far

VARIABLES
    watchlist,    \* PriceCollector.watchlist: list of token addresses
    is_running,   \* PriceCollector.is_running
    cpc,          \* position of the start_collection coroutine
    ti,           \* collect_price_data: elements the list iterator has passed
    tok,          \* collect_price_data: token_address of the current pass
    pj,           \* collect_price_data: provider the current pass is at
    results,      \* collect_price_data: results, in insertion order
    si,           \* start_collection: entry of results being stored
    reqCount,     \* per provider: DataProvider._request_count
    lastReset,    \* per provider: DataProvider._last_request_time
    now,          \* the clock
    sleepUntil,   \* when the pending asyncio.sleep returns
    \* history of the current cycle (not program state)
    cycle,        \* cycles begun
    startList,    \* the watchlist when the cycle began
    visited,      \* addresses the cycle has polled, one entry per pass
    trials,       \* provider trials of the cycle, in order
    cyclePubs,    \* PriceUpdate events the cycle published
    stored,       \* store_price_tick calls of the cycle
    startCount,   \* per provider: _request_count when the cycle began
    expired,      \* per provider: a rate check of the cycle reset the counter
    nColOps, nTicks

VARIABLES
    calls,        \* get_token_price calls made on the provider, in call order:
                  \* the state they found and what came of them (history)
    failures,     \* passes of the collection loop that ended in its outer
                  \* except clause: the cycle and the time (history)
    parked,       \* frames of the start_collection coroutines that are
                  \* suspended while another one runs
    colStops      \* stop_collection calls made so far (history)

VARIABLES
    rkey,         \* redis: per rate-limit key, its value and its expiry
    rcalls,       \* calls of incr_rate_limit and get_rate_limit_count and
                  \* requests in RateLimitMiddleware.dispatch: where each
                  \* coroutine is and what it has read
    rlog          \* per key: the INCR and EXPIRE commands the redis server
                  \* has executed on it, in its order (history)

\* the rate counters and their callers
limiter == <<rkey, rcalls, rlog>>

VARIABLES
    app           \* position of the lifespan context manager of the FastAPI
                  \* application

VARIABLES
    rec,          \* the dict given to DataCleaner.validate_price_data
    verdict       \* what the validator returned for it

\* what neither the bus nor the collector nor a provider touches
rest == <<limiter, app, rec, verdict>>

\* what neither a bus operation nor a step of the collection loop touches
aside == <<calls, failures, parked>>

colVars == <<watchlist, is_running, cpc, ti, tok, pj, results, si, reqCount,
             lastReset, now, sleepUntil, cycle, startList, visited, trials,
             cyclePubs, stored, startCount, expired, nColOps, nTicks>>

busVars == <<handlers, queue, putters, running, bpc, cur, tasks, loopCap,
             caps,
             pubs, delivered, completed, unsubscribed, regCount,
             stopCalled, busStops, nOps>>

stopHist == <<stopCalled, busStops>>

\* what no bus operation touches
others == <<loopCap, caps, colVars, aside, colStops, rest>>

vars == <<busVars, colVars, aside, colStops, rest>>

NoEvent == [id |-> 0, event_type |-> "", source |-> "",
            data |-> [token_address |-> "", price |-> 0, provider |-> 0]]

NoTasks == {}

(***************************************************************************)
(* EventBus: the subscription mapping.                                     *)
(***************************************************************************)
\* dict.get(event_type, [])
HandlersFor(hs, t) == IF t \in DOMAIN hs THEN hs[t] ELSE <<>>

\* a removal that drops every occurrence
RemoveEvery(s, h) == SelectSeq(s, LAMBDA x : x # h)

\* a removal that drops the newest registration when h is not there
RemoveFirstOrLast(s, h) ==
    IF \E i \in 1..Len(s) : s[i] = h
    THEN LET i == CHOOSE i \in 1..Len(s) :
                      s[i] = h /\ \A j \in 1..(i - 1) : s[j] # h
         IN  SubSeq(s, 1, i - 1) \o SubSeq(s, i + 1, Len(s))
    ELSE SubSeq(s, 1, Len(s) - 1)

\* list.remove(h): drops the first occurrence; ValueError (swallowed by the
\* caller) when h is absent, leaving the list as it was
RemoveFirst(s, h) ==
    IF \E i \in 1..Len(s) : s[i] = h
    THEN LET i == CHOOSE i \in 1..Len(s) :
                      s[i] = h /\ \A j \in 1..(i - 1) : s[j] # h
         IN  SubSeq(s, 1, i - 1) \o SubSeq(s, i + 1, Len(s))
    ELSE s

HandlersAfterSubscribe(hs, t, h) ==
    [k \in DOMAIN hs \cup {t} |->
        IF k = t THEN Append(HandlersFor(hs, t), h) ELSE hs[k]]

\* an unsubscribe that leaves the registration in place
UnsubscribeKeepsHandler(hs, t, h) == hs

HandlersAfterUnsubscribe(hs, t, h) ==
    IF t \in DOMAIN hs THEN [hs EXCEPT ![t] = RemoveFirst(hs[t], h)] ELSE hs

(***************************************************************************)
(* EventBus: the queue.                                                    *)
(***************************************************************************)
\* a queue built with room for one event only
QueueMaxSizeOne == Len(<<NoEvent>>)

\* events.py:64  asyncio.Queue() is built with the default maxsize 0: unbounded
QueueMaxSize == 0

\* asyncio.Queue.full(): never, when maxsize <= 0
QueueFull(q) == QueueMaxSize > 0 /\ Len(q) >= QueueMaxSize

\* a queue that hands out the newest pending item (LifoQueue)
GetIndexNewest(q) == Len(q)

\* asyncio.Queue.get takes the oldest pending item
GetIndex(q) == 1

RemoveAt(q, i) == SubSeq(q, 1, i - 1) \o SubSeq(q, i + 1, Len(q))

\* a queue that keeps one pending event and drops what is put meanwhile
EnqueueKeepsOne(e) ==
    IF queue # <<>>
    THEN UNCHANGED <<queue, putters>>
    ELSE queue' = Append(queue, e) /\ UNCHANGED putters

\* Queue.put: appends at once unless the queue is full; a full queue suspends
\* the caller until a get makes room
EnqueueEvent(e) ==
    IF QueueFull(queue)
    THEN putters' = Append(putters, e) /\ UNCHANGED queue
    ELSE queue' = Append(queue, e) /\ UNCHANGED putters

\* a loop that goes on to the next get whatever the flag says
LoopCheckIgnoresStop == "get"

\* the loop condition of EventBus.start, read when a pass of the loop ends
LoopCheck == IF running THEN "get" ELSE "done"

Alive ==
    {l \in Loops :
        bpc[l] \in {"scheduled", "get", "timeout", "got", "gather", "cancelling"}}

(***************************************************************************)
(* EventBus: handler tasks of a dispatch.                                  *)
(***************************************************************************)
TasksOf(l) == {t \in tasks : t.loop = l /\ t.id = cur[l].id}

Finished(t) == t.st \in {"ok", "raised", "cancelled"}

\* a dispatch that does not wait for its handlers
GatherDoneNoWait(ts) == TRUE

\* asyncio.gather(*tasks, return_exceptions=True) resumes its awaiter when
\* every task has finished
GatherDone(ts) == \A t \in ts : Finished(t)

\* a dispatch in which the first failure cancels the handlers still running
AfterRaiseCancelSiblings(ts, t) ==
    {IF u = t THEN [u EXCEPT !.st = "raised"]
     ELSE IF u.loop = t.loop /\ u.id = t.id /\ u.st \in {"pending", "running"}
          THEN [u EXCEPT !.st = "cancelled"]
          ELSE u : u \in ts}

\* a handler raising inside gather(..., return_exceptions=True): the
\* exception becomes that task's result and no other task is touched
AfterRaise(ts, t) == (ts \ {t}) \cup {[t EXCEPT !.st = "raised"]}

(***************************************************************************)
(* EventBus operations.                                                    *)
(***************************************************************************)
Subscribe(t, h) ==
    /\ nOps < caps.calls
    /\ handlers' = HandlersAfterSubscribe(handlers, t, h)
    /\ nOps' = nOps + 1
    /\ unsubscribed' = unsubscribed \ {<<t, h>>}
    /\ regCount' = [regCount EXCEPT ![<<t, h>>] = @ + 1]
    /\ pubs' = [i \in 1..Len(pubs) |->
                  IF pubs[i].event_type = t
                  THEN [pubs[i] EXCEPT !.after = @ \ {h}, !.gone = @ \ {h}]
                  ELSE pubs[i]]
    /\ UNCHANGED <<queue, putters, running, bpc, cur, tasks, others, stopHist,
                   delivered, completed>>

Unsubscribe(t, h) ==
    /\ nOps < caps.calls
    /\ handlers' = HandlersAfterUnsubscribe(handlers, t, h)
    /\ nOps' = nOps + 1
    /\ unsubscribed' = unsubscribed \cup {<<t, h>>}
    /\ regCount' = [regCount EXCEPT ![<<t, h>>] = IF @ > 0 THEN @ - 1 ELSE 0]
    /\ UNCHANGED <<queue, putters, running, bpc, cur, tasks, others, stopHist,
                   pubs, delivered, completed>>

\* publish(Event(event_type=t, source=src, data=data))
PublishEvent(t, src, data) ==
    /\ EnqueueEvent([id |-> Len(pubs) + 1, event_type |-> t,
                     source |-> src, data |-> data])
    /\ pubs' = Append(pubs,
                 [event_type |-> t,
                  after |-> {h \in Handlers : <<t, h>> \in unsubscribed},
                  gone |-> {h \in Handlers : /\ <<t, h>> \in unsubscribed
                                             /\ regCount[<<t, h>>] = 0}])

Publish(t) ==
    /\ nOps < caps.calls
    /\ nOps' = nOps + 1
    /\ PublishEvent(t, "producer", NoEvent.data)
    /\ UNCHANGED <<handlers, running, bpc, cur, tasks, others, stopHist, delivered,
                   completed, unsubscribed, regCount>>

\* asyncio.create_task(event_bus.start()): the coroutine is scheduled, its
\* first statement has not run yet
CreateBusTask(l) ==
    /\ bpc[l] \in {"idle", "done"}
    /\ \A m \in Loops : bpc[m] \in {"idle", "done"} => l <= m
    /\ nOps < caps.calls
    /\ Cardinality(Alive) < loopCap
    /\ bpc' = [bpc EXCEPT ![l] = "scheduled"]
    /\ nOps' = nOps + 1
    /\ UNCHANGED <<handlers, queue, putters, running, cur, tasks, others, stopHist,
                   pubs, delivered, completed, unsubscribed, regCount>>

\* start(): self._running = True, the loop condition, and the first
\* wait_for(self._queue.get(), timeout=1.0), where the coroutine suspends
StartBus(l) ==
    /\ bpc[l] = "scheduled"
    /\ running' = TRUE
    /\ bpc' = [bpc EXCEPT ![l] = "get"]
    /\ UNCHANGED <<handlers, queue, putters, cur, tasks, others, stopHist, pubs,
                   delivered, completed, unsubscribed, regCount, nOps>>

\* a stop() that flips the flag
BusRunningAfterStopToggled == ~running

\* stop(): self._running = False
BusRunningAfterStop == FALSE

StopBus ==
    /\ nOps < caps.calls
    /\ nOps' = nOps + 1
    /\ running' = BusRunningAfterStop
    /\ stopCalled' = TRUE
    /\ busStops' = busStops + 1
    /\ UNCHANGED <<handlers, queue, putters, bpc, cur, tasks, others, pubs,
                   delivered, completed, unsubscribed, regCount>>

\* the pending get() receives the oldest event; a publisher suspended in put
\* is let in
Dequeue(l) ==
    /\ bpc[l] = "get"
    /\ queue # <<>>
    /\ cur' = [cur EXCEPT ![l] = queue[GetIndex(queue)]]
    /\ IF putters # <<>>
       THEN /\ queue' = Append(RemoveAt(queue, GetIndex(queue)), Head(putters))
            /\ putters' = Tail(putters)
       ELSE /\ queue' = RemoveAt(queue, GetIndex(queue))
            /\ UNCHANGED putters
    /\ bpc' = [bpc EXCEPT ![l] = "got"]
    /\ UNCHANGED <<handlers, running, tasks, others, stopHist, pubs, delivered,
                   completed, unsubscribed, regCount, nOps>>

\* one second without an event: the timer of wait_for fires.  wait_for then
\* cancels its get() and waits for it to end, so an event published from
\* here on stays in the queue
GetTimeout(l) ==
    /\ bpc[l] = "get"
    /\ queue = <<>>
    /\ bpc' = [bpc EXCEPT ![l] = "timeout"]
    /\ UNCHANGED <<handlers, queue, putters, running, cur, tasks, others, stopHist,
                   pubs, delivered, completed, unsubscribed, regCount,
                   nOps>>

\* the cancelled get() has ended: asyncio.TimeoutError, continue, and the
\* loop condition is read
ContinueAfterTimeout(l) ==
    /\ bpc[l] = "timeout"
    /\ bpc' = [bpc EXCEPT ![l] = LoopCheck]
    /\ UNCHANGED <<handlers, queue, putters, running, cur, tasks, others, stopHist,
                   pubs, delivered, completed, unsubscribed, regCount,
                   nOps>>

\* _process_event up to the await of gather: one coroutine per handler
\* registered for the event's type right now
Dispatch(l) ==
    /\ bpc[l] = "got"
    /\ LET hs == HandlersFor(handlers, cur[l].event_type) IN
       IF hs = <<>>
       THEN /\ completed' = Append(completed,
                               [id |-> cur[l].id, n |-> 0, raised |-> FALSE,
                                running |-> running])
            /\ cur' = [cur EXCEPT ![l] = NoEvent]
            /\ bpc' = [bpc EXCEPT ![l] = LoopCheck]
            /\ UNCHANGED tasks
       ELSE /\ tasks' = tasks \cup
                  {[loop |-> l, id |-> cur[l].id, k |-> k,
                    handler |-> hs[k], st |-> "pending"] : k \in 1..Len(hs)}
            /\ bpc' = [bpc EXCEPT ![l] = "gather"]
            /\ UNCHANGED <<cur, completed>>
    /\ UNCHANGED <<handlers, queue, putters, running, others, stopHist, pubs,
                   delivered, unsubscribed, regCount, nOps>>

\* a dispatch that looks the handler up again when its turn comes, and
\* passes over it when it is no longer registered
StartHandlerIfRegistered(t) ==
    /\ t \in tasks
    /\ t.st = "pending"
    /\ \A u \in tasks : (u.loop = t.loop /\ u.id = t.id /\ u.k < t.k)
                            => u.st # "pending"
    /\ IF \E i \in 1..Len(HandlersFor(handlers, pubs[t.id].event_type)) :
              HandlersFor(handlers, pubs[t.id].event_type)[i] = t.handler
       THEN /\ tasks' = (tasks \ {t}) \cup {[t EXCEPT !.st = "running"]}
            /\ delivered' = Append(delivered,
                               [handler |-> t.handler, id |-> t.id, k |-> t.k])
       ELSE /\ tasks' = (tasks \ {t}) \cup {[t EXCEPT !.st = "ok"]}
            /\ UNCHANGED delivered
    /\ UNCHANGED <<handlers, queue, putters, running, bpc, cur, others, stopHist,
                   pubs, completed, unsubscribed, regCount, nOps>>

\* the event loop starts the gathered coroutines in the order of the list
StartHandler(t) ==
    /\ t \in tasks
    /\ t.st = "pending"
    /\ \A u \in tasks : (u.loop = t.loop /\ u.id = t.id /\ u.k < t.k)
                            => u.st # "pending"
    /\ tasks' = (tasks \ {t}) \cup {[t EXCEPT !.st = "running"]}
    /\ delivered' = Append(delivered,
                       [handler |-> t.handler, id |-> t.id, k |-> t.k])
    /\ UNCHANGED <<handlers, queue, putters, running, bpc, cur, others, stopHist,
                   pubs, completed, unsubscribed, regCount, nOps>>

HandlerReturn(t) ==
    /\ t \in tasks
    /\ t.st = "running"
    /\ tasks' = (tasks \ {t}) \cup {[t EXCEPT !.st = "ok"]}
    /\ UNCHANGED <<handlers, queue, putters, running, bpc, cur, others, stopHist,
                   pubs, delivered, completed, unsubscribed, regCount,
                   nOps>>

HandlerRaise(t) ==
    /\ t \in tasks
    /\ t.st = "running"
    /\ tasks' = AfterRaise(tasks, t)
    /\ UNCHANGED <<handlers, queue, putters, running, bpc, cur, others, stopHist,
                   pubs, delivered, completed, unsubscribed, regCount,
                   nOps>>

\* a handler assigns a field of the event it was given (event.source = ...):
\* the model is frozen, the assignment raises and the event is as it was
HandlerSetsField(t) ==
    /\ t \in tasks
    /\ t.st = "running"
    /\ tasks' = AfterRaise(tasks, t)
    /\ UNCHANGED <<handlers, queue, putters, running, bpc, cur, others, stopHist,
                   pubs, delivered, completed, unsubscribed, regCount,
                   nOps>>

\* a handler stores into the mapping of the event it was given
\* (event.data["price"] = ...): data is a plain dict, and the handlers of a
\* dispatch were all given the one event object
HandlerWritesData(t) ==
    /\ t \in tasks
    /\ t.st = "running"
    /\ cur[t.loop].data.price # WrittenPrice
    /\ cur' = [cur EXCEPT ![t.loop].data.price = WrittenPrice]
    /\ UNCHANGED <<handlers, queue, putters, running, bpc, tasks, others,
                   stopHist, pubs, delivered, completed, unsubscribed,
                   regCount, nOps>>

\* gather returns; _process_event returns; the loop condition is read again
EndDispatch(l) ==
    /\ bpc[l] = "gather"
    /\ GatherDone(TasksOf(l))
    /\ completed' = Append(completed,
                      [id |-> cur[l].id,
                       n |-> Cardinality(TasksOf(l)),
                       raised |-> \E t \in TasksOf(l) : t.st = "raised",
                       running |-> running])
    /\ tasks' = {t \in tasks : ~(t \in TasksOf(l) /\ Finished(t))}
    /\ cur' = [cur EXCEPT ![l] = NoEvent]
    /\ bpc' = [bpc EXCEPT ![l] = LoopCheck]
    /\ UNCHANGED <<handlers, queue, putters, running, others, stopHist, pubs,
                   delivered, unsubscribed, regCount, nOps>>

(***************************************************************************)
(* DataCleaner.validate_price_data.  A dict is a function from field names *)
(* to values.  A value is a tuple whose length tells its Python type: an   *)
(* int or float <<v>>, None <<>>, a Decimal number Dec(v); the NaNs, the   *)
(* strings and the datetime are defined where they are first needed.       *)
(***************************************************************************)
None == <<>>
Val(x) == x[1]

\* Decimal(v)
Dec(v) == <<v, 0, 0, 0, 0, 0, 0>>
IsDecimal(x) == Len(x) = 7
Max2(a, b) == IF a >= b THEN a ELSE b
OHLCFields == {"open_price", "high_price", "low_price", "close_price"}

\* float('nan'): every ordering comparison with it is False
FloatNaN == <<0, 0, 0>>

\* an int, a float that is a number, or a Decimal that is a number
IsNumber(x) == Len(x) = 1 \/ IsDecimal(x)

\* an ordering comparison of a with b raises: TypeError when an operand is
\* None or a string beside a number, decimal.InvalidOperation when an operand
\* is a Decimal NaN, or a float NaN beside a Decimal (which the Decimal
\* converts before it compares); float NaN beside an int or a float is False
CompareRaises(a, b) ==
    \/ ~IsNumber(a) /\ a # FloatNaN
    \/ ~IsNumber(b) /\ b # FloatNaN
    \/ a = FloatNaN /\ IsDecimal(b)
    \/ b = FloatNaN /\ IsDecimal(a)

Le(a, b) == ~CompareRaises(a, b) /\ IsNumber(a) /\ IsNumber(b) /\ Val(a) <= Val(b)
Lt(a, b) == ~CompareRaises(a, b) /\ IsNumber(a) /\ IsNumber(b) /\ Val(a) < Val(b)
Ge(a, b) == Le(b, a)
Gt(a, b) == Lt(b, a)

\* max(a, b) and min(a, b): b > a, b < a is evaluated, and the second
\* argument wins only if the comparison says so
PyMax(a, b) == IF Gt(b, a) THEN b ELSE a
PyMin(a, b) == IF Lt(b, a) THEN b ELSE a

\* an exception raised inside the try block is turned into False by the
\* validator's except Exception
ValidatePriceData(d) ==
    IF "price" \notin DOMAIN d \/ d["price"] = None THEN FALSE
    ELSE IF CompareRaises(d["price"], <<0>>) THEN FALSE
    ELSE IF Le(d["price"], <<0>>) THEN FALSE
    ELSE IF /\ OHLCFields \subseteq DOMAIN d
            /\ \/ CompareRaises(d["close_price"], d["open_price"])
               \/ ~(/\ Ge(d["high_price"],
                          PyMax(d["open_price"], d["close_price"]))
                    /\ Ge(d["high_price"], d["low_price"]))
               \/ ~(/\ Le(d["low_price"],
                          PyMin(d["open_price"], d["close_price"]))
                    /\ Le(d["low_price"], d["high_price"]))
         THEN FALSE
    ELSE IF /\ "volume" \in DOMAIN d
            /\ d["volume"] # None
            /\ CompareRaises(d["volume"], <<0>>) \/ Lt(d["volume"], <<0>>)
         THEN FALSE
    ELSE TRUE

(***************************************************************************)
(* DataProvider: the per-provider request counter.                         *)
(***************************************************************************)
\* _check_rate_limit: more than a minute since the last reset
WindowExpired(p) == now - lastReset[p] > RateWindow

CountAfterCheck(p) == IF WindowExpired(p) THEN 0 ELSE reqCount[p]

LastAfterCheck(p) == IF WindowExpired(p) THEN now ELSE lastReset[p]

\* a check that lets a request through when the counter is at the limit
CheckRateLimitInclusive(p) == CountAfterCheck(p) <= RateLimit

\* _check_rate_limit's result
CheckRateLimit(p) == CountAfterCheck(p) < RateLimit

\* what get_token_info can come to once the request is sent:
\*   http_error   client.get or raise_for_status raises
\*   bad_payload  the response is counted, building the dict raises
\*   no_pairs     the response is counted, None is returned
\*   data         the response is counted, a dict is returned
\*   nan_data     the same, the payload's volume.h24 being "sNaN"
Outcomes == {"http_error", "bad_payload", "no_pairs", "data", "nan_data"}

\* the response was received: _increment_request_count ran
Counted(o) == o \in {"bad_payload", "no_pairs", "data", "nan_data"}

\* get_token_info returned a dict
Returned(o) == o \in {"data", "nan_data"}

\* Decimal("sNaN"): Decimal(str(...)) accepts it, it is no number, and
\* float() of it raises ValueError
SNaN == <<0, 0>>

\* float(x) raises: TypeError for None, ValueError for a signalling NaN
FloatRaises(x) == x = None \/ x = SNaN

\* the dict get_token_info builds from pairs[0]: price and volume are
\* Decimal(str(...)), the price change is a float
TokenInfo(a, p) ==
    [address |-> <<a>>, price |-> Dec(p), volume_24h |-> Dec(0),
     price_change_24h |-> <<0>>]

TokenInfoOf(o, a, p) ==
    IF o = "nan_data" THEN [TokenInfo(a, p) EXCEPT !.volume_24h = SNaN]
    ELSE TokenInfo(a, p)

\* PriceUpdateEvent(data={... float(price_data["price"]),
\* float(price_data["volume_24h"]) ...}) can be built
Publishable(d) == ~FloatRaises(d.price) /\ ~FloatRaises(d.volume_24h)

(***************************************************************************)
(* DexScreenerProvider's request functions, called directly on the         *)
(* provider.                                                               *)
(***************************************************************************)
Dexscreener == CHOOSE p \in Providers : ProviderNames[p] = "dexscreener"

\* the exception that leaves get_token_price when e is raised inside its try
\* block: except httpx.HTTPError and except Exception both raise
\* DataProviderException, and RateLimitException is an Exception
ExceptionLeaving(e) ==
    IF e = "HTTPError" THEN "DataProviderException"
    ELSE "DataProviderException"

\* what get_token_price comes to once the response is there
PriceResult(o) ==
    CASE o = "http_error" -> ExceptionLeaving("HTTPError")
      [] o = "bad_payload" -> ExceptionLeaving("InvalidOperation")
      [] o = "no_pairs" -> "None"
      [] o \in {"data", "nan_data"} -> "price"

\* what get_token_info comes to: the dict built from pairs[0], or None
InfoResult(o) ==
    CASE o = "http_error" -> ExceptionLeaving("HTTPError")
      [] o = "bad_payload" -> ExceptionLeaving("InvalidOperation")
      [] o = "no_pairs" -> "None"
      [] o \in {"data", "nan_data"} -> "dict"

\* what get_trending_tokens comes to: the list of the pairs' tokens, empty
\* when the payload has no pairs
TrendingResult(o) ==
    CASE o = "http_error" -> ExceptionLeaving("HTTPError")
      [] o = "bad_payload" -> ExceptionLeaving("InvalidOperation")
      [] o \in {"no_pairs", "data", "nan_data"} -> "list"

ResultOf(fn, o) ==
    CASE fn = "get_token_price" -> PriceResult(o)
      [] fn = "get_token_info" -> InfoResult(o)
      [] fn = "get_trending_tokens" -> TrendingResult(o)

loopVars == <<watchlist, is_running, cpc, ti, tok, pj, results, si,
              sleepUntil, cycle, startList, visited, trials, cyclePubs,
              stored, startCount, expired>>

\* a request function up to the request: the rate check, then either the
\* raise of RateLimitException or client.get, where the caller suspends
CallProvider(fn) ==
    /\ Len(calls) < MaxCalls
    /\ reqCount' = [reqCount EXCEPT ![Dexscreener] = CountAfterCheck(Dexscreener)]
    /\ lastReset' = [lastReset EXCEPT ![Dexscreener] = LastAfterCheck(Dexscreener)]
    /\ calls' = Append(calls,
                  [fn |-> fn,
                   atLimit |-> reqCount[Dexscreener] >= RateLimit,
                   sent |-> CheckRateLimit(Dexscreener),
                   result |-> IF CheckRateLimit(Dexscreener) THEN "pending"
                              ELSE ExceptionLeaving("RateLimitException")])
    /\ UNCHANGED <<busVars, loopVars, now, nColOps, nTicks, failures, parked,
                   colStops, rest>>

\* the response of call i arrives: raise_for_status, the increment, the
\* payload
ProviderResponse(fn, i, o) ==
    /\ i \in 1..Len(calls)
    /\ calls[i].fn = fn
    /\ calls[i].result = "pending"
    /\ reqCount' = [reqCount EXCEPT
                       ![Dexscreener] = IF Counted(o) THEN @ + 1 ELSE @]
    /\ calls' = [calls EXCEPT ![i].result = ResultOf(fn, o)]
    /\ UNCHANGED <<busVars, loopVars, lastReset, now, nColOps, nTicks,
                   failures, parked, colStops, rest>>

GetTokenPrice == CallProvider("get_token_price")
PriceResponse(i, o) == ProviderResponse("get_token_price", i, o)

GetTokenInfo == CallProvider("get_token_info")
InfoResponse(i, o) == ProviderResponse("get_token_info", i, o)

GetTrendingTokens == CallProvider("get_trending_tokens")
TrendingResponse(i, o) == ProviderResponse("get_trending_tokens", i, o)

\* test_rate_limit_exceeded: provider._request_count = provider.rate_limit
SetCountToLimit ==
    /\ nColOps < caps.ops
    /\ nColOps' = nColOps + 1
    /\ reqCount' = [reqCount EXCEPT ![Dexscreener] = RateLimit]
    /\ UNCHANGED <<busVars, loopVars, lastReset, now, nTicks, aside, colStops,
                   rest>>

\* time goes by between and during the calls
ClockAdvances ==
    /\ cpc = "idle"
    /\ nTicks < caps.ticks
    /\ nTicks' = nTicks + 1
    /\ now' = now + TickSeconds
    /\ UNCHANGED <<busVars, loopVars, reqCount, lastReset, nColOps, aside,
                   colStops, rest>>

NextProvider ==
    \/ GetTokenPrice
    \/ \E i \in 1..MaxCalls, o \in Outcomes : PriceResponse(i, o)
    \/ GetTokenInfo
    \/ \E i \in 1..MaxCalls, o \in Outcomes : InfoResponse(i, o)
    \/ GetTrendingTokens
    \/ \E i \in 1..MaxCalls, o \in Outcomes : TrendingResponse(i, o)
    \/ SetCountToLimit
    \/ ClockAdvances

(***************************************************************************)
(* RedisCache: the rate counters (src/src/data/storage/cache/redis_cache). *)
(* The redis server executes one command at a time; a key that has an      *)
(* expiry is gone once the clock reaches it (no sweep: every command looks *)
(* at the clock).  A caller is suspended from the moment it sends a        *)
(* command until the reply is there, and other coroutines run meanwhile.   *)
(***************************************************************************)
Keys == {"k1", "k2"}

\* a key that INCR has created and EXPIRE has not yet been applied to
NoTTL == -1

\* a key that does not exist
NoKey == [val |-> 0, exp |-> NoTTL]

\* RateLimitMiddleware.window_size, the ttl it passes to incr_rate_limit
WindowSize == 60

\* incr_rate_limit(provider, endpoint, ttl = 60)
DefaultTTL == 60

Live(k) == rkey[k].val > 0 /\ (rkey[k].exp = NoTTL \/ now < rkey[k].exp)

\* redis.get(key)
RedisGet(k) == IF Live(k) THEN <<rkey[k].val>> ELSE None

\* get_rate_limit_count: int(await self.get(key, 0))
RateLimitCount(k) == IF RedisGet(k) = None THEN 0 ELSE Val(RedisGet(k))

\* an increment made of a read and a write: the write of a caller that read
\* while another caller's command was under way undoes that caller's update
AfterIncrLosesUpdate(k) ==
    IF Live(k)
    THEN IF \E i \in 1..Len(rcalls) :
                rcalls[i].key = k /\ rcalls[i].pc = "EXPIRE"
         THEN rkey[k]
         ELSE [rkey[k] EXCEPT !.val = @ + 1]
    ELSE [val |-> 1, exp |-> NoTTL]

\* redis.incr(key, 1)
AfterIncr(k) ==
    IF Live(k) THEN [rkey[k] EXCEPT !.val = @ + 1]
    ELSE [val |-> 1, exp |-> NoTTL]

\* redis.expire(key, ttl)
AfterExpire(k, ttl) ==
    IF Live(k) THEN [rkey[k] EXCEPT !.exp = now + ttl] ELSE rkey[k]

\* incr_rate_limit after the reply to INCR: the caller that created the key
\* goes on to EXPIRE
AfterCount(count, then) == IF count = 1 THEN "EXPIRE" ELSE then

\* where a coroutine goes once its counter is incremented
Then(c) == IF c.op = "http" THEN "next" ELSE "done"

NewCall(op, k, ttl, pc) ==
    [op |-> op, key |-> k, ttl |-> ttl, pc |-> pc, read |-> -1, got |-> 0,
     resp |-> "", retry_after |-> 0]

Logged(cmd, i, k, after) ==
    [rlog EXCEPT ![k] = Append(@, [cmd |-> cmd, call |-> i, at |-> now,
                                   live |-> Live(k), before |-> rkey[k],
                                   after |-> after])]

limiterIdle == <<busVars, loopVars, reqCount, lastReset, now, nColOps, nTicks,
                 aside, colStops, app, rec, verdict>>

\* a caller enters incr_rate_limit and sends INCR
CallIncr(k) ==
    /\ Len(rcalls) < MaxIncrs
    /\ rcalls' = Append(rcalls, NewCall("incr", k, DefaultTTL, "INCR"))
    /\ UNCHANGED <<rkey, rlog, limiterIdle>>

\* a caller enters get_rate_limit_count and sends GET
CallGetCount(k) ==
    /\ Len(rcalls) < MaxIncrs
    /\ rcalls' = Append(rcalls, NewCall("get", k, 0, "GET"))
    /\ UNCHANGED <<rkey, rlog, limiterIdle>>

\* the server executes the INCR of call i
ServeIncr(i) ==
    /\ i \in 1..Len(rcalls)
    /\ rcalls[i].pc = "INCR"
    /\ LET k == rcalls[i].key
           after == AfterIncr(k)
       IN /\ rkey' = [rkey EXCEPT ![k] = after]
          /\ rcalls' = [rcalls EXCEPT ![i].got = after.val,
                                      ![i].pc = AfterCount(after.val,
                                                           Then(rcalls[i]))]
          /\ rlog' = Logged("incr", i, k, after)
    /\ UNCHANGED limiterIdle

\* the server executes the EXPIRE of call i
ServeExpire(i) ==
    /\ i \in 1..Len(rcalls)
    /\ rcalls[i].pc = "EXPIRE"
    /\ LET k == rcalls[i].key
           after == AfterExpire(k, rcalls[i].ttl)
       IN /\ rkey' = [rkey EXCEPT ![k] = after]
          /\ rcalls' = [rcalls EXCEPT ![i].pc = Then(rcalls[i])]
          /\ rlog' = Logged("expire", i, k, after)
    /\ UNCHANGED limiterIdle

\* redis.expire raises (the connection is lost): expire() raises
\* TradingAgentException out of incr_rate_limit, the key is as INCR left it
ExpireFails(i) ==
    /\ i \in 1..Len(rcalls)
    /\ rcalls[i].pc = "EXPIRE"
    /\ rcalls' = [rcalls EXCEPT ![i].pc = "raised"]
    /\ UNCHANGED <<rkey, rlog, limiterIdle>>

\* the caller is cancelled while it awaits expire(): EXPIRE is never sent
Interrupted(i) ==
    /\ i \in 1..Len(rcalls)
    /\ rcalls[i].pc = "EXPIRE"
    /\ rcalls' = [rcalls EXCEPT ![i].pc = "cancelled"]
    /\ UNCHANGED <<rkey, rlog, limiterIdle>>

(***************************************************************************)
(* RedisCache: the general functions, called on the key of a rate counter. *)
(* Each sends one command, which the server executes at once.  Nothing in  *)
(* the repository calls them on such a key: the counters are read and      *)
(* written by get_rate_limit_count and incr_rate_limit only.               *)
(***************************************************************************)
\* RedisCache.default_ttl, the ttl of set() when none is given
CacheDefaultTTL == 300

\* the commands that came in through the general functions
DirectOps(k) == {n \in 1..Len(rlog[k]) : rlog[k][n].call = 0}

CacheOpsLeft ==
    Cardinality(UNION {{<<k, n>> : n \in DirectOps(k)} : k \in Keys})
        < MaxCacheOps

\* redis.setex(key, ttl, json.dumps(value))
AfterSet(k, value, ttl) == [val |-> value, exp |-> now + ttl]

\* redis.incr(key, amount)
AfterIncrBy(k, amount) ==
    IF Live(k) THEN [rkey[k] EXCEPT !.val = @ + amount]
    ELSE [val |-> amount, exp |-> NoTTL]

\* cache.set(key, value): SETEX with default_ttl
CacheSet(k, value) ==
    /\ CacheOpsLeft
    /\ rkey' = [rkey EXCEPT ![k] = AfterSet(k, value, CacheDefaultTTL)]
    /\ rlog' = Logged("set", 0, k, AfterSet(k, value, CacheDefaultTTL))
    /\ UNCHANGED <<rcalls, limiterIdle>>

\* cache.delete(key)
CacheDelete(k) ==
    /\ CacheOpsLeft
    /\ rkey' = [rkey EXCEPT ![k] = NoKey]
    /\ rlog' = Logged("delete", 0, k, NoKey)
    /\ UNCHANGED <<rcalls, limiterIdle>>

\* cache.incr(key, amount): no EXPIRE follows
CacheIncr(k, amount) ==
    /\ CacheOpsLeft
    /\ rkey' = [rkey EXCEPT ![k] = AfterIncrBy(k, amount)]
    /\ rlog' = Logged("incr", 0, k, AfterIncrBy(k, amount))
    /\ UNCHANGED <<rcalls, limiterIdle>>

\* cache.expire(key, ttl)
CacheExpire(k, ttl) ==
    /\ CacheOpsLeft
    /\ rkey' = [rkey EXCEPT ![k] = AfterExpire(k, ttl)]
    /\ rlog' = Logged("expire", 0, k, AfterExpire(k, ttl))
    /\ UNCHANGED <<rcalls, limiterIdle>>

\* cache.flush_all(): FLUSHDB removes every key
CacheFlushAll ==
    /\ CacheOpsLeft
    /\ rkey' = [k \in Keys |-> NoKey]
    /\ rlog' = [k \in Keys |->
                  Append(rlog[k], [cmd |-> "flushdb", call |-> 0, at |-> now,
                                   live |-> Live(k), before |-> rkey[k],
                                   after |-> NoKey])]
    /\ UNCHANGED <<rcalls, limiterIdle>>

(***************************************************************************)
(* RateLimitMiddleware.dispatch (src/src/api/middleware/rate_limiting.py). *)
(***************************************************************************)
Paths == {"/health", "/v1"}

Exempt(path) == path \in {"/health", "/ready"}

\* the comparison of the count read with requests_per_minute
DeniedAbove(count) == count > Ceiling

Denied(count) == count >= Ceiling

\* a request arrives: a health check goes to call_next, any other sends GET
Request(k, path) ==
    /\ Len(rcalls) < MaxRequests
    /\ rcalls' = Append(rcalls,
                   NewCall("http", k, WindowSize,
                           IF Exempt(path) THEN "next" ELSE "GET"))
    /\ UNCHANGED <<rkey, rlog, limiterIdle>>

\* the requests on key k that are between get_rate_limit_count and
\* incr_rate_limit: they read a count below the ceiling and have not
\* incremented the counter yet
BetweenReadAndIncr(k) ==
    {i \in 1..Len(rcalls) :
        rcalls[i].op = "http" /\ rcalls[i].key = k /\ rcalls[i].pc = "INCR"}

\* what dispatch does with the count it read: the 429 response, or INCR
AfterRead(c, count) ==
    IF c.op = "get" THEN [c EXCEPT !.read = count, !.pc = "done"]
    ELSE IF Denied(count)
         THEN [c EXCEPT !.read = count, !.pc = "done", !.resp = "429",
                        !.retry_after = WindowSize]
         ELSE [c EXCEPT !.read = count, !.pc = "INCR"]

\* the server executes the GET of call i
ServeGet(i) ==
    /\ i \in 1..Len(rcalls)
    /\ rcalls[i].pc = "GET"
    /\ rcalls' = [rcalls EXCEPT
                    ![i] = AfterRead(@, RateLimitCount(rcalls[i].key))]
    /\ UNCHANGED <<rkey, rlog, limiterIdle>>

\* call_next(request): the request goes to the application
CallNext(i) ==
    /\ i \in 1..Len(rcalls)
    /\ rcalls[i].pc = "next"
    /\ rcalls' = [rcalls EXCEPT ![i].pc = "done", ![i].resp = "forwarded"]
    /\ UNCHANGED <<rkey, rlog, limiterIdle>>

\* rate_limit_key of the client that sends the burst
Client == "k1"

\* the rate counters called directly
NextWindow ==
    \/ \E k \in Keys : CallIncr(k)
    \/ \E k \in Keys : CallGetCount(k)
    \/ \E i \in 1..MaxIncrs : ServeIncr(i)
    \/ \E i \in 1..MaxIncrs : ServeExpire(i)
    \/ \E i \in 1..MaxIncrs : ServeGet(i)
    \/ ClockAdvances

\* the rate counters with the general functions of the cache called on the
\* key of one of them
NextCache ==
    \/ NextWindow
    \/ \E value \in 1..Ceiling : CacheSet(Client, value)
    \/ CacheDelete(Client)
    \/ \E amount \in 1..MaxIncrAmount : CacheIncr(Client, amount)
    \/ CacheExpire(Client, WindowSize)
    \/ CacheFlushAll

\* the client sends a request for a path that is rate limited
BurstRequest ==
    /\ Len(rcalls) < MaxBurst
    /\ rcalls' = Append(rcalls, NewCall("http", Client, WindowSize, "GET"))
    /\ UNCHANGED <<rkey, rlog, limiterIdle>>

\* the requests of one client through the middleware
NextBurst ==
    \/ BurstRequest
    \/ \E i \in 1..MaxBurst : ServeGet(i)
    \/ \E i \in 1..MaxBurst : ServeIncr(i)
    \/ \E i \in 1..MaxBurst : ServeExpire(i)
    \/ \E i \in 1..MaxBurst : CallNext(i)
    \/ ClockAdvances

\* the rate counters with an expire step that can fail or be cut off
NextExpiry ==
    \/ NextWindow
    \/ \E i \in 1..MaxIncrs : ExpireFails(i)
    \/ \E i \in 1..MaxIncrs : Interrupted(i)

\* requests through the middleware
NextLimiter ==
    \/ \E k \in Keys, path \in Paths : Request(k, path)
    \/ \E i \in 1..MaxRequests : ServeGet(i)
    \/ \E i \in 1..MaxRequests : ServeIncr(i)
    \/ \E i \in 1..MaxRequests : ServeExpire(i)
    \/ \E i \in 1..MaxRequests : CallNext(i)
    \/ ClockAdvances

(***************************************************************************)
(* PriceCollector.                                                         *)
(***************************************************************************)
\* a membership test that never finds the address
InListNever(l, a) == FALSE

InList(l, a) == \E i \in 1..Len(l) : l[i] = a

\* results[token_address] = {...}: a dict keeps the position of a key it has
PutResult(rs, a, j, d) ==
    IF \E i \in 1..Len(rs) : rs[i].addr = a
    THEN [i \in 1..Len(rs) |->
            IF rs[i].addr = a THEN [addr |-> a, source |-> j, data |-> d]
            ELSE rs[i]]
    ELSE Append(rs, [addr |-> a, source |-> j, data |-> d])

\* the providers the loop of collect_price_data goes through
Configured == 1..Len(caps.providers)

\* break: no further provider is tried for the address
AfterAccept(j) == Len(caps.providers) + 1

\* start_collection passes self.watchlist itself to collect_price_data, and
\* the for loop iterates that list object
IteratedList == watchlist

\* the coroutine is at an await that yields to the event loop, or not running
Suspended == cpc \in {"idle", "scheduled", "http", "store", "sleep", "done"}

busStill == <<handlers, running, bpc, cur, tasks, delivered, completed,
              unsubscribed, regCount, stopHist, nOps, loopCap, caps,
             rest>>

busIdle == <<busStill, aside, colStops>>

provVars == <<reqCount, lastReset, now>>
cycleHist == <<cycle, startList, visited, trials, cyclePubs, stored,
               startCount, expired>>

AddToken(a) ==
    /\ Suspended
    /\ nColOps < caps.ops
    /\ nColOps' = nColOps + 1
    /\ watchlist' = IF InList(watchlist, a) THEN watchlist
                    ELSE Append(watchlist, a)
    /\ UNCHANGED <<is_running, cpc, ti, tok, pj, results, si, provVars,
                   sleepUntil, cycleHist, nTicks, busIdle, queue, putters, pubs>>

RemoveToken(a) ==
    /\ Suspended
    /\ nColOps < caps.ops
    /\ nColOps' = nColOps + 1
    /\ watchlist' = RemoveFirst(watchlist, a)
    /\ UNCHANGED <<is_running, cpc, ti, tok, pj, results, si, provVars,
                   sleepUntil, cycleHist, nTicks, busIdle, queue, putters, pubs>>

\* a stop_collection that flips the flag
RunningAfterStopToggled == ~is_running

\* stop_collection: self.is_running = False
RunningAfterStop == FALSE

StopCollection ==
    /\ Suspended
    /\ nColOps < caps.ops
    /\ nColOps' = nColOps + 1
    /\ is_running' = RunningAfterStop
    /\ colStops' = colStops + 1
    /\ UNCHANGED <<watchlist, cpc, ti, tok, pj, results, si, provVars,
                   sleepUntil, cycleHist, nTicks, busStill, aside, queue,
                   putters, pubs>>

\* asyncio.create_task(price_collector.start_collection())
CreateCollectorTask ==
    /\ cpc = "idle"
    /\ cpc' = "scheduled"
    /\ UNCHANGED <<watchlist, is_running, ti, tok, pj, results, si, provVars,
                   sleepUntil, cycleHist, nColOps, nTicks, busIdle, queue,
                   putters, pubs>>

\* start_collection: self.is_running = True
StartCollection ==
    /\ cpc = "scheduled"
    /\ is_running' = TRUE
    /\ cpc' = "top"
    /\ UNCHANGED <<watchlist, ti, tok, pj, results, si, provVars, sleepUntil,
                   cycleHist, nColOps, nTicks, busIdle, queue, putters, pubs>>

\* a loop that goes on whatever the flag says
LoopConditionAlways == TRUE

\* while self.is_running:
LoopCondition == is_running

\* while self.is_running: / if self.watchlist: / results = {}
LoopTop ==
    /\ cpc = "top"
    /\ IF ~LoopCondition
       THEN /\ cpc' = "done"
            /\ UNCHANGED <<ti, results, sleepUntil, cycleHist>>
       ELSE /\ cycle < caps.cycles
            /\ cycle' = cycle + 1
            /\ startList' = watchlist
            /\ visited' = <<>>
            /\ trials' = <<>>
            /\ cyclePubs' = <<>>
            /\ stored' = <<>>
            /\ startCount' = reqCount
            /\ expired' = [p \in Configured |-> FALSE]
            /\ results' = <<>>
            /\ ti' = 0
            /\ IF watchlist # <<>>
               THEN cpc' = "iter" /\ UNCHANGED sleepUntil
               ELSE cpc' = "sleep" /\ sleepUntil' = now + CollectionInterval
    /\ UNCHANGED <<watchlist, is_running, tok, pj, si, provVars, nColOps,
                   nTicks, busIdle, queue, putters, pubs>>

\* for token_address in token_addresses: the list iterator hands out the
\* element after those it has passed, if the list still has one
NextToken ==
    /\ cpc = "iter"
    /\ IF ti < Len(IteratedList)
       THEN /\ tok' = IteratedList[ti + 1]
            /\ ti' = ti + 1
            /\ pj' = 1
            /\ visited' = Append(visited, IteratedList[ti + 1])
            /\ cpc' = "prov"
            /\ UNCHANGED <<si, sleepUntil>>
       ELSE /\ IF results = <<>>
               THEN cpc' = "sleep" /\ sleepUntil' = now + CollectionInterval
               ELSE cpc' = "store" /\ UNCHANGED sleepUntil
            /\ si' = 1
            /\ UNCHANGED <<tok, ti, pj, visited>>
    /\ UNCHANGED <<watchlist, is_running, results, provVars, cycle, startList,
                   trials, cyclePubs, stored, startCount, expired, nColOps,
                   nTicks, busIdle, queue, putters, pubs>>

\* for provider_name, provider in self.providers.items(): get_token_info up
\* to the request; RateLimitException leaves as DataProviderException, which
\* the collector logs before it continues with the next provider
TryProvider ==
    /\ cpc = "prov"
    /\ IF pj \notin Configured
       THEN /\ cpc' = "iter"
            /\ UNCHANGED <<pj, reqCount, lastReset, trials, expired>>
       ELSE /\ reqCount' = [reqCount EXCEPT ![pj] = CountAfterCheck(pj)]
            /\ lastReset' = [lastReset EXCEPT ![pj] = LastAfterCheck(pj)]
            /\ expired' = [expired EXCEPT ![pj] = @ \/ WindowExpired(pj)]
            /\ IF CheckRateLimit(pj)
               THEN cpc' = "http" /\ UNCHANGED <<pj, trials>>
               ELSE /\ trials' = Append(trials,
                         [visit |-> Len(visited), prov |-> pj,
                          outcome |-> "limited"])
                    /\ pj' = pj + 1
                    /\ cpc' = "prov"
    /\ UNCHANGED <<watchlist, is_running, ti, tok, results, si, now,
                   sleepUntil, cycle, startList, visited, cyclePubs, stored,
                   startCount, nColOps, nTicks, busIdle, queue, putters, pubs>>

\* the response arrives: the rest of get_token_info, then the collector's
\* handling of what it returned or raised.  results[token_address] is set
\* before the event is built; an exception raised while building it is no
\* DataProviderException and ends the pass over the address (line 82)
HttpResponse(o, p) ==
    /\ cpc = "http"
    /\ reqCount' = [reqCount EXCEPT ![pj] = IF Counted(o) THEN @ + 1 ELSE @]
    /\ trials' = Append(trials,
                   [visit |-> Len(visited), prov |-> pj, outcome |-> o])
    /\ IF Returned(o)
       THEN /\ results' = PutResult(results, tok, pj, TokenInfoOf(o, tok, p))
            /\ IF Publishable(TokenInfoOf(o, tok, p))
               THEN /\ PublishEvent("price_update", "price_collector",
                                    [token_address |-> tok, price |-> p,
                                     provider |-> pj])
                    /\ cyclePubs' = Append(cyclePubs,
                                      [visit |-> Len(visited), addr |-> tok,
                                       provider |-> pj, id |-> Len(pubs) + 1,
                                       data |-> TokenInfoOf(o, tok, p)])
                    /\ pj' = AfterAccept(pj)
                    /\ cpc' = "prov"
               ELSE /\ cpc' = "iter"
                    /\ UNCHANGED <<pj, cyclePubs, queue, putters, pubs>>
       ELSE /\ pj' = pj + 1
            /\ cpc' = "prov"
            /\ UNCHANGED <<results, cyclePubs, queue, putters, pubs>>
    /\ UNCHANGED <<watchlist, is_running, ti, tok, si, lastReset, now,
                   sleepUntil, cycle, startList, visited, stored, startCount,
                   expired, nColOps, nTicks, busIdle>>

\* a store loop that gives up the remaining entries when one store fails
StoreAbortsOnFailure(i, ok) == IF ok THEN i + 1 ELSE Len(results) + 1

\* for token_address, result in results.items(): the entry after entry i,
\* whether storing entry i raised (except Exception: logged) or not
StoreNext(i, ok) == i + 1

\* async with get_db() / store_price_tick for one entry of results; a failure
\* is logged and the loop goes on
Store(ok) ==
    /\ cpc = "store"
    /\ stored' = Append(stored,
                   [addr |-> results[si].addr, ok |-> ok,
                    data |-> results[si].data, published |-> Len(pubs)])
    /\ IF StoreNext(si, ok) <= Len(results)
       THEN si' = StoreNext(si, ok) /\ UNCHANGED <<cpc, sleepUntil>>
       ELSE /\ cpc' = "sleep"
            /\ sleepUntil' = now + CollectionInterval
            /\ UNCHANGED si
    /\ UNCHANGED <<watchlist, is_running, ti, tok, pj, results, provVars,
                   cycle, startList, visited, trials, cyclePubs, startCount,
                   expired, nColOps, nTicks, busIdle, queue, putters, pubs>>

\* asyncio.sleep(self.collection_interval) returns, not before its time
Wake ==
    /\ cpc = "sleep"
    /\ now' = Max2(now, sleepUntil)
    /\ cpc' = "top"
    /\ UNCHANGED <<watchlist, is_running, ti, tok, pj, results, si, reqCount,
                   lastReset, sleepUntil, cycleHist, nColOps, nTicks, busIdle,
                   queue, putters, pubs>>

\* time goes by while the coroutine waits
TimePasses ==
    /\ cpc \in {"http", "store", "sleep"}
    /\ nTicks < caps.ticks
    /\ nTicks' = nTicks + 1
    /\ now' = now + TickSeconds
    /\ UNCHANGED <<watchlist, is_running, cpc, ti, tok, pj, results, si,
                   reqCount, lastReset, sleepUntil, cycleHist, nColOps,
                   busIdle, queue, putters, pubs>>

\* an outer except clause that lets the loop end
CycleErrorEndsLoop == "done"

\* except Exception as e: logger.error(...); await asyncio.sleep(...): the
\* loop is suspended in the sleep of the except clause
AfterCycleError == "sleep"

\* the cycle in progress has ended in the outer except clause
Failed == \E f \in 1..Len(failures) : failures[f].cycle = cycle

\* an exception leaves the try block of the loop body: raised by the for
\* statement of collect_price_data or of the store loop, the places of a
\* cycle that no inner handler covers
CycleRaises ==
    /\ cpc \in {"iter", "store"}
    /\ ~Failed
    /\ failures' = Append(failures, [cycle |-> cycle, at |-> now])
    /\ cpc' = AfterCycleError
    /\ sleepUntil' = now + CollectionInterval
    /\ UNCHANGED <<watchlist, is_running, ti, tok, pj, results, si, provVars,
                   cycleHist, nColOps, nTicks, busStill, calls, parked,
                   colStops, queue, putters, pubs>>

\* the locals and the position of the start_collection coroutine that runs
Frame == [cpc |-> cpc, ti |-> ti, tok |-> tok, pj |-> pj, results |-> results,
          si |-> si, sleepUntil |-> sleepUntil]

\* asyncio.create_task(price_collector.start_collection()) while an earlier
\* start_collection coroutine of the collector exists: a new coroutine is
\* scheduled, the earlier one stays where it is suspended
CreateCollectorTaskAgain ==
    /\ Suspended
    /\ cpc # "idle"
    /\ Len(parked) + 1 < NumLoops
    /\ parked' = Append(parked, Frame)
    /\ cpc' = "scheduled"
    /\ ti' = 0
    /\ tok' = ""
    /\ pj' = 1
    /\ results' = <<>>
    /\ si' = 1
    /\ sleepUntil' = 0
    /\ UNCHANGED <<watchlist, is_running, provVars, cycleHist, nColOps, nTicks,
                   busStill, calls, failures, colStops, queue, putters, pubs>>

\* the event loop resumes another start_collection coroutine: the one that
\* ran is suspended at an await
ResumeTask(i) ==
    /\ Suspended
    /\ i \in 1..Len(parked)
    /\ parked' = [parked EXCEPT ![i] = Frame]
    /\ cpc' = parked[i].cpc
    /\ ti' = parked[i].ti
    /\ tok' = parked[i].tok
    /\ pj' = parked[i].pj
    /\ results' = parked[i].results
    /\ si' = parked[i].si
    /\ sleepUntil' = parked[i].sleepUntil
    /\ UNCHANGED <<watchlist, is_running, provVars, cycleHist, nColOps, nTicks,
                   busStill, calls, failures, colStops, queue, putters, pubs>>

(***************************************************************************)
(* DataCleaner.validate_price_data applied to a record.                    *)
(***************************************************************************)
\* a key that the dict does not have
Absent == <<0, 0, 0, 0>>

\* amounts as int and as Decimal
Amounts == {<<n>> : n \in 0..MaxAmount} \cup {Dec(n) : n \in 0..MaxAmount}

PriceValues == Amounts \cup {Absent, None, FloatNaN, SNaN}
OHLCValues == Amounts \cup {Absent, None, FloatNaN}
VolumeValues == {Absent, None, FloatNaN, <<-1>>, <<0>>, Dec(-1), Dec(0)}

\* the dict with the keys that are given a value
DictOf(f) == [k \in {x \in DOMAIN f : f[x] # Absent} |-> f[k]]

Records ==
    {DictOf([price |-> p, open_price |-> o, high_price |-> h,
             low_price |-> l, close_price |-> c, volume |-> v]) :
        p \in PriceValues, o \in OHLCValues, h \in OHLCValues,
        l \in OHLCValues, c \in OHLCValues, v \in VolumeValues}

NoRecord == DictOf([price |-> Absent])

\* data_cleaner.validate_price_data(rec)
Validate ==
    /\ verdict = "none"
    /\ verdict' = IF ValidatePriceData(rec) THEN "accepted" ELSE "rejected"
    /\ UNCHANGED <<busVars, colVars, aside, colStops, limiter, app, rec>>

NextValidator == Validate

(***************************************************************************)
(* DataCleaner.clean_price_data followed by validate_price_data.           *)
(***************************************************************************)
\* strings: '', str(n) possibly with other characters around it ("$1", "-1"),
\* and a string in which re.sub leaves nothing that Decimal parses ("abc", "5-")
EmptyString == <<0, 0, 0, 0, 0>>
Digits(n) == <<1, n, 0, 0, 0>>
Garbage == <<2, 0, 0, 0, 0>>
IsString(x) == Len(x) = 5

\* Decimal('NaN'), what Decimal(str(float('nan'))) is
DecimalNaN == <<0, 0, 0, 0, 0, 0>>

\* DataCleaner._clean_decimal(value): Decimal(cleaned) of a string,
\* Decimal(str(value)) of anything else
CleanDecimal(value) ==
    IF value = None \/ value = EmptyString THEN None
    ELSE IF IsString(value)
         THEN IF value = Garbage THEN None ELSE Dec(value[2])
    ELSE IF value = FloatNaN THEN DecimalNaN
    ELSE IF IsNumber(value) THEN Dec(Val(value))
    ELSE value

\* price_fields and volume_fields of clean_price_data
DecimalFields ==
    {"price"} \cup OHLCFields \cup {"volume", "volume_24h", "quote_volume", "liquidity"}

\* datetime.utcnow() at time t
Datetime(t) == <<t, 0, 0, 0, 0, 0, 0, 0>>

\* DataCleaner.clean_price_data(raw_data) at time t: the price and volume
\* fields that raw_data has, cleaned, and the timestamp; a key of no field
\* list is left out (the payloads here have no percentage, integer, string
\* or address field)
CleanPriceData(raw_data, t) ==
    [field \in (DOMAIN raw_data \cap DecimalFields) \cup {"timestamp"} |->
        IF field = "timestamp" THEN Datetime(t)
        ELSE CleanDecimal(raw_data[field])]

RawValues ==
    {<<n>> : n \in -1..MaxAmount}
        \cup {Absent, None, FloatNaN, EmptyString, Garbage, Digits(-1), Digits(1)}

\* provider payloads with a price, a volume and a 24h volume
RawRecords ==
    {DictOf([price |-> p, volume |-> v, volume_24h |-> w]) :
        p \in RawValues, v \in RawValues, w \in RawValues}

\* cleaned = data_cleaner.clean_price_data(raw)
Clean ==
    /\ verdict = "raw"
    /\ rec' = CleanPriceData(rec, now)
    /\ verdict' = "none"
    /\ UNCHANGED <<busVars, colVars, aside, colStops, limiter, app>>

NextCleaner ==
    \/ Clean
    \/ Validate

(***************************************************************************)
(* lifespan of the FastAPI application (src/src/api/app.py).               *)
(***************************************************************************)
\* the application's only dispatch loop
AppLoop == 1

\* task.cancel() asks for the cancellation of a task that has not ended: the
\* task stays suspended where it is, and CancelledError is raised in it when
\* the event loop runs it next
CancelledBus(l) == IF bpc[l] \in {"idle", "done"} THEN bpc[l] ELSE "cancelling"

CancelledCollector == IF cpc \in {"idle", "done"} THEN cpc ELSE "cancelling"

\* startup, up to the yield: create_task(event_bus.start()), PriceCollector()
\* and create_task(price_collector.start_collection())
LifespanStartup ==
    /\ app = "down"
    /\ app' = "up"
    /\ bpc' = [bpc EXCEPT ![AppLoop] = "scheduled"]
    /\ cpc' = "scheduled"
    /\ UNCHANGED <<handlers, queue, putters, running, cur, tasks, loopCap,
                   caps, pubs, delivered, completed, unsubscribed, regCount,
                   stopHist, nOps>>
    /\ UNCHANGED <<watchlist, is_running, ti, tok, pj, results, si, provVars,
                   sleepUntil, cycleHist, nColOps, nTicks, aside, colStops,
                   limiter, rec, verdict>>

\* shutdown, from the finally clause to the await of engine.dispose():
\* event_bus.stop(), event_bus_task.cancel(), price_collector_task.cancel()
LifespanShutdown ==
    /\ app = "up"
    /\ Suspended
    /\ app' = "dispose"
    /\ running' = BusRunningAfterStop
    /\ stopCalled' = TRUE
    /\ busStops' = busStops + 1
    /\ bpc' = [l \in Loops |-> CancelledBus(l)]
    /\ cpc' = CancelledCollector
    /\ UNCHANGED <<handlers, queue, putters, cur, tasks, loopCap, caps, pubs,
                   delivered, completed, unsubscribed, regCount, nOps>>
    /\ UNCHANGED <<watchlist, is_running, ti, tok, pj, results, si, provVars,
                   sleepUntil, cycleHist, nColOps, nTicks, aside, colStops,
                   limiter, rec, verdict>>

\* CancelledError is raised in the dispatch-loop task (in a task that never
\* ran, before its first statement; in wait_for, which cancels its get() and
\* raises again): start() does not catch it, the task ends
BusCancelled(l) ==
    /\ bpc[l] = "cancelling"
    /\ bpc' = [bpc EXCEPT ![l] = "done"]
    /\ UNCHANGED <<handlers, queue, putters, running, cur, tasks, loopCap,
                   caps, pubs, delivered, completed, unsubscribed, regCount,
                   stopHist, nOps>>
    /\ UNCHANGED <<colVars, aside, colStops, limiter, app, rec, verdict>>

\* CancelledError is raised in the collector task: start_collection catches
\* Exception only, the task ends and is_running stays as it is
CollectorCancelled ==
    /\ cpc = "cancelling"
    /\ cpc' = "done"
    /\ UNCHANGED <<watchlist, is_running, ti, tok, pj, results, si, provVars,
                   sleepUntil, cycleHist, nColOps, nTicks, aside, colStops,
                   limiter, app, rec, verdict>>
    /\ UNCHANGED busVars

\* engine.dispose() returns: shutdown complete
LifespanClosed ==
    /\ app = "dispose"
    /\ app' = "closed"
    /\ UNCHANGED <<busVars, colVars, aside, colStops, limiter, rec, verdict>>

\* a request reaches the application, which is up
AppRequest(k, path) ==
    /\ app = "up"
    /\ Len(rcalls) < AppRequests
    /\ Request(k, path)

\* the application from startup to shutdown: the bus and the collector it
\* creates (nothing subscribes, and the collector's watchlist is empty) and
\* the requests that pass through its middleware
NextApp ==
    \/ LifespanStartup
    \/ LifespanShutdown
    \/ LifespanClosed
    \/ BusCancelled(AppLoop)
    \/ CollectorCancelled
    \/ StartBus(AppLoop)
    \/ GetTimeout(AppLoop)
    \/ ContinueAfterTimeout(AppLoop)
    \/ StartCollection
    \/ LoopTop
    \/ Wake
    \/ TimePasses
    \/ \E k \in Keys, path \in Paths : AppRequest(k, path)
    \/ \E i \in 1..AppRequests : ServeGet(i)
    \/ \E i \in 1..AppRequests : ServeIncr(i)
    \/ \E i \in 1..AppRequests : ServeExpire(i)
    \/ \E i \in 1..AppRequests : CallNext(i)

\* the collector with n providers in its dict
InitCollectorWith(n) ==
    /\ watchlist = <<>>
    /\ is_running = FALSE
    /\ cpc = "idle"
    /\ ti = 0
    /\ tok = ""
    /\ pj = 1
    /\ results = <<>>
    /\ si = 1
    /\ reqCount = [p \in 1..n |-> 0]
    /\ lastReset = [p \in 1..n |-> 0]
    /\ now = StartTime
    /\ sleepUntil = 0
    /\ cycle = 0
    /\ startList = <<>>
    /\ visited = <<>>
    /\ trials = <<>>
    /\ cyclePubs = <<>>
    /\ stored = <<>>
    /\ startCount = [p \in 1..n |-> 0]
    /\ expired = [p \in 1..n |-> FALSE]
    /\ nColOps = 0
    /\ nTicks = 0

InitCollector == InitCollectorWith(NumProviders)

NextCollector ==
    \/ \E a \in Addrs : AddToken(a)
    \/ \E a \in Addrs : RemoveToken(a)
    \/ StopCollection
    \/ CreateCollectorTask
    \/ StartCollection
    \/ LoopTop
    \/ NextToken
    \/ TryProvider
    \/ \E o \in caps.outcomes, p \in caps.prices : HttpResponse(o, p)
    \/ \E ok \in BOOLEAN : Store(ok)
    \/ Wake
    \/ TimePasses

InitAside ==
    /\ calls = <<>>
    /\ failures = <<>>
    /\ parked = <<>>
    /\ colStops = 0
    /\ rkey = [k \in Keys |-> NoKey]
    /\ rcalls = <<>>
    /\ rlog = [k \in Keys |-> <<>>]
    /\ app = "down"

\* no record has been given to the validator
InitRecord ==
    /\ rec = NoRecord
    /\ verdict = "none"

\* the loop with passes that fail
NextLoop ==
    \/ NextCollector
    \/ CycleRaises

\* the collector with start_collection called again
NextStarts ==
    \/ NextCollector
    \/ CreateCollectorTaskAgain
    \/ \E i \in 1..NumLoops : ResumeTask(i)

InitBus ==
    /\ handlers = << >>
    /\ queue = <<>>
    /\ putters = <<>>
    /\ running = FALSE
    /\ bpc = [l \in Loops |-> "idle"]
    /\ cur = [l \in Loops |-> NoEvent]
    /\ tasks = NoTasks
    /\ pubs = <<>>
    /\ delivered = <<>>
    /\ completed = <<>>
    /\ unsubscribed = {}
    /\ regCount = [p \in Types \X Handlers |-> 0]
    /\ stopCalled = FALSE
    /\ busStops = 0
    /\ nOps = 0

\* the bus served by one dispatch loop, with producers other than the collector
Init ==
    /\ InitBus
    /\ InitCollector
    /\ InitAside
    /\ InitRecord
    /\ loopCap = 1
    /\ caps = [calls |-> MaxOps, ops |-> 0, cycles |-> 0, ticks |-> 0,
               providers |-> ProviderNames,
               prices |-> {}, outcomes |-> {}]

\* the same bus, with the calls it takes to stop a loop that is dispatching
\* start() can be handed to create_task once per dispatch-loop task
InitTwoLoops ==
    /\ InitBus
    /\ InitCollector
    /\ InitAside
    /\ InitRecord
    /\ loopCap = NumLoops
    /\ caps = [calls |-> 5, ops |-> 0, cycles |-> 0, ticks |-> 0,
               providers |-> ProviderNames,
               prices |-> {}, outcomes |-> {}]

InitStop ==
    /\ InitBus
    /\ InitCollector
    /\ InitAside
    /\ InitRecord
    /\ loopCap = 1
    /\ caps = [calls |-> 5, ops |-> 0, cycles |-> 0, ticks |-> 0,
               providers |-> ProviderNames,
               prices |-> {}, outcomes |-> {}]

\* the collector through one cycle, with calls on it from outside
InitCycle ==
    /\ InitBus
    /\ InitCollector
    /\ InitAside
    /\ InitRecord
    /\ loopCap = 0
    /\ caps = [calls |-> 0, ops |-> MaxColOps, cycles |-> 1, ticks |-> 1,
               providers |-> ProviderNames,
               prices |-> Prices, outcomes |-> Outcomes]

\* self.providers after a second DataProvider was put into the dict behind
\* the one __init__ configures: the collector the fallback rules are about
WithFallback == Append(ProviderNames, "fallback")

\* the collector with a fallback provider through one cycle
InitFallback ==
    /\ InitBus
    /\ InitCollectorWith(Len(WithFallback))
    /\ InitAside
    /\ InitRecord
    /\ loopCap = 0
    /\ caps = [calls |-> 0, ops |-> 2, cycles |-> 1, ticks |-> 1,
               providers |-> WithFallback,
               prices |-> Prices, outcomes |-> Outcomes]

\* the collector with a fallback provider through two cycles while time
\* passes
InitCycles ==
    /\ InitBus
    /\ InitCollectorWith(Len(WithFallback))
    /\ InitAside
    /\ InitRecord
    /\ loopCap = 0
    /\ caps = [calls |-> 0, ops |-> 2, cycles |-> 2, ticks |-> MaxTicks,
               providers |-> WithFallback,
               prices |-> {2}, outcomes |-> {"http_error", "no_pairs", "data"}]

\* a provider used on its own, as the unit tests use it
InitProvider ==
    /\ InitBus
    /\ InitCollector
    /\ InitAside
    /\ InitRecord
    /\ loopCap = 0
    /\ caps = [calls |-> 0, ops |-> 1, cycles |-> 0, ticks |-> MaxTicks,
               providers |-> ProviderNames,
               prices |-> Prices, outcomes |-> Outcomes]

\* the rate counters of the cache and their callers, while time passes
InitLimiter ==
    /\ InitBus
    /\ InitCollector
    /\ InitAside
    /\ InitRecord
    /\ loopCap = 0
    /\ caps = [calls |-> 0, ops |-> 0, cycles |-> 0, ticks |-> MaxTicks,
               providers |-> ProviderNames,
               prices |-> {}, outcomes |-> {}]

\* the application before its startup
InitApp ==
    /\ InitBus
    /\ InitCollector
    /\ InitAside
    /\ InitRecord
    /\ loopCap = 1
    /\ caps = [calls |-> 0, ops |-> 0, cycles |-> 2, ticks |-> MaxTicks,
               providers |-> ProviderNames,
               prices |-> {}, outcomes |-> {}]

\* a record is given to the validator
InitValidator ==
    /\ InitBus
    /\ InitCollector
    /\ InitAside
    /\ rec \in Records
    /\ verdict = "none"
    /\ loopCap = 0
    /\ caps = [calls |-> 0, ops |-> 0, cycles |-> 0, ticks |-> 0,
               providers |-> ProviderNames,
               prices |-> {}, outcomes |-> {}]

\* a provider payload is cleaned and then validated
InitCleaner ==
    /\ InitBus
    /\ InitCollector
    /\ InitAside
    /\ rec \in RawRecords
    /\ verdict = "raw"
    /\ loopCap = 0
    /\ caps = [calls |-> 0, ops |-> 0, cycles |-> 0, ticks |-> 0,
               providers |-> ProviderNames,
               prices |-> {}, outcomes |-> {}]

\* the collection loop over several cycles, started once
InitLoop ==
    /\ InitBus
    /\ InitCollector
    /\ InitAside
    /\ InitRecord
    /\ loopCap = 0
    /\ caps = [calls |-> 0, ops |-> 2, cycles |-> 2, ticks |-> 1,
               providers |-> ProviderNames,
               prices |-> {2}, outcomes |-> {"http_error", "data"}]

\* the collector with start_collection called twice
InitStarts ==
    /\ InitBus
    /\ InitCollector
    /\ InitAside
    /\ InitRecord
    /\ loopCap = 0
    /\ caps = [calls |-> 0, ops |-> 1, cycles |-> 2, ticks |-> 1,
               providers |-> ProviderNames,
               prices |-> {2}, outcomes |-> {"data"}]

NextBus ==
    \/ \E t \in Types, h \in Handlers : Subscribe(t, h)
    \/ \E t \in Types, h \in Handlers : Unsubscribe(t, h)
    \/ \E t \in Types : Publish(t)
    \/ \E l \in Loops : CreateBusTask(l)
    \/ \E l \in Loops : StartBus(l)
    \/ StopBus
    \/ \E l \in Loops : Dequeue(l)
    \/ \E l \in Loops : GetTimeout(l)
    \/ \E l \in Loops : ContinueAfterTimeout(l)
    \/ \E l \in Loops : Dispatch(l)
    \/ \E t \in tasks : StartHandler(t)
    \/ \E t \in tasks : HandlerReturn(t)
    \/ \E t \in tasks : HandlerRaise(t)
    \/ \E l \in Loops : EndDispatch(l)

Next == NextBus

\* the bus with handlers that write to the event they are given
NextEvent ==
    \/ NextBus
    \/ \E t \in tasks : HandlerSetsField(t)
    \/ \E t \in tasks : HandlerWritesData(t)

Spec == Init /\ [][Next]_vars

SpecEvent == InitStop /\ [][NextEvent]_vars

\* the collector on its own: it publishes to the bus, whose dispatch loop has
\* not been started
SpecCollector == InitCycle /\ [][NextCollector]_vars

\* the collector whose dict holds a fallback provider, through one cycle
SpecFallback == InitFallback /\ [][NextCollector]_vars

\* that collector over several cycles, for what depends on the clock
SpecCycles == InitCycles /\ [][NextCollector]_vars

\* the event loop runs a coroutine that is ready, the wait for the next event
\* ends with an event or with its timeout, and every handler terminates
FairBus ==
    /\ WF_vars(\E l \in Loops : StartBus(l))
    /\ WF_vars(\E l \in Loops : Dequeue(l))
    /\ WF_vars(\E l \in Loops : GetTimeout(l))
    /\ WF_vars(\E l \in Loops : ContinueAfterTimeout(l))
    /\ WF_vars(\E l \in Loops : Dispatch(l))
    /\ WF_vars(\E t \in tasks : StartHandler(t))
    /\ WF_vars(\E t \in tasks : HandlerReturn(t) \/ HandlerRaise(t))
    /\ WF_vars(\E l \in Loops : EndDispatch(l))

\* the bus served by one dispatch loop whose steps are taken
SpecBusFair == InitStop /\ [][Next]_vars /\ FairBus

\* the bus on which start() may be called while a dispatch loop is running
SpecTwoLoops == InitTwoLoops /\ [][Next]_vars

\* the event loop runs a coroutine that is ready, every awaited request,
\* store and sleep comes back
FairLoop ==
    /\ WF_vars(StartCollection)
    /\ WF_vars(LoopTop)
    /\ WF_vars(NextToken)
    /\ WF_vars(TryProvider)
    /\ WF_vars(\E o \in caps.outcomes, p \in caps.prices : HttpResponse(o, p))
    /\ WF_vars(\E ok \in BOOLEAN : Store(ok))
    /\ WF_vars(Wake)

\* the collection loop, started once, with passes that fail
SpecLoop == InitLoop /\ [][NextLoop]_vars /\ FairLoop

\* two start_collection coroutines on one collector
SpecStarts == InitStarts /\ [][NextStarts]_vars

\* get_token_price calls on one provider
SpecProvider == InitProvider /\ [][NextProvider]_vars

\* validate_price_data on every record of the bounded set
SpecValidator == InitValidator /\ [][NextValidator]_vars

\* clean_price_data, then validate_price_data, on every payload of the set
SpecCleaner == InitCleaner /\ [][NextCleaner]_vars

\* the application from startup to shutdown
SpecApp == InitApp /\ [][NextApp]_vars

\* incr_rate_limit and get_rate_limit_count called by concurrent callers
SpecWindow == InitLimiter /\ [][NextWindow]_vars

\* the rate counters while a key is written directly
SpecCache == InitLimiter /\ [][NextCache]_vars

\* the same callers when the expire step can fail or be cut off
SpecExpiry == InitLimiter /\ [][NextExpiry]_vars

\* a burst of requests of one client through RateLimitMiddleware
SpecBurst == InitLimiter /\ [][NextBurst]_vars

\* concurrent requests through RateLimitMiddleware
SpecLimiter == InitLimiter /\ [][NextLimiter]_vars

(***************************************************************************)
(* Claims about the EventBus, checked under Spec (one dispatch loop).      *)
(***************************************************************************)
Dequeued == {cur[l].id : l \in Loops} \ {0}

\* C1: handlers are invoked on events in the order the events were
\* published: an invocation for an event never comes after an invocation
\* for an event published later, whatever the types of the two events.
C1_PublishOrderDelivery ==
    \A i, j \in 1..Len(delivered) :
        i < j => delivered[i].id <= delivered[j].id

\* one handler has received two events of different types
C1_Witness ==
    \E i, j \in 1..Len(delivered) :
        /\ i < j
        /\ delivered[i].handler = delivered[j].handler
        /\ delivered[i].id < delivered[j].id
        /\ pubs[delivered[i].id].event_type # pubs[delivered[j].id].event_type

\* C2: when a dispatch has ended, every handler registered for the event
\* when the dispatch began has been invoked for it, also when one of them
\* raised, and in later dispatches too; and a dispatch loop ends only after
\* stop() was called.
C2_HandlerFailureIsolated ==
    /\ \A i \in 1..Len(completed) : \A k \in 1..completed[i].n :
          \E d \in 1..Len(delivered) :
              delivered[d].id = completed[i].id /\ delivered[d].k = k
    /\ \A l \in Loops : bpc[l] = "done" => stopCalled

\* a dispatch with two handlers, one of which raised, has ended, and the next
\* event has been dispatched to its handlers after it
C2_Witness ==
    \E i, j \in 1..Len(completed) :
        /\ i < j
        /\ completed[i].raised /\ completed[i].n >= 2
        /\ completed[j].n >= 1 /\ ~completed[j].raised
        /\ \A l \in Loops : bpc[l] # "done"

\* C3 as stated: an event published after unsubscribe(type, handler) returned
\* (with no subscribe of that handler since) is not delivered to the handler.
C3_NoDeliveryAfterUnsubscribe ==
    \A d \in 1..Len(delivered) :
        delivered[d].handler \notin pubs[delivered[d].id].after

\* C3 amended: an event published after unsubscribe(type, handler) returned
\* is not delivered to the handler when every subscribe of the handler for
\* that type has been undone by an unsubscribe of its own and the handler has
\* not been subscribed again.
C3_NoDeliveryAfterLastUnsubscribe ==
    \A d \in 1..Len(delivered) :
        delivered[d].handler \notin pubs[delivered[d].id].gone

\* an event published after a handler's only registration was removed has
\* been dispatched to the handler that remained
C3_Witness ==
    \E i \in 1..Len(completed) :
        /\ pubs[completed[i].id].gone # {}
        /\ completed[i].n >= 1

\* C4: the handlers that have not finished all belong to one event, the one
\* the loop holds; no event is taken from the queue while a handler of an
\* earlier event is unfinished.
C4_OneEventAtATime ==
    \A t \in tasks : ~Finished(t) =>
        /\ \A u \in tasks : ~Finished(u) => u.id = t.id
        /\ \A l \in Loops : cur[l] # NoEvent => cur[l].id = t.id

\* a handler of an event is still running after a sibling failed, while the
\* next event waits in the queue
C4_Witness ==
    \E l \in Loops :
        /\ bpc[l] = "gather"
        /\ queue # <<>>
        /\ \E t, u \in TasksOf(l) : t.st = "running" /\ u.st = "raised"

\* C5: no publisher is ever suspended in publish(): every event published so
\* far is either pending in the queue, in publish order, or already taken by
\* the dispatch loop.
C5_PublishNeverWaits ==
    /\ putters = <<>>
    /\ Len(queue) + Cardinality(Dequeued) + Len(completed) = Len(pubs)
    /\ \A i \in 1..Len(queue) : queue[i].id = Len(pubs) - Len(queue) + i

\* three events are pending although no dispatch loop was ever started, and
\* two are pending behind a handler that has not returned
C5_WitnessIdle ==
    /\ \A l \in Loops : bpc[l] = "idle"
    /\ Len(queue) >= 3

C5_Witness ==
    /\ Len(queue) >= 2
    /\ \E t \in tasks : t.st = "running"

\* stop() was called on a loop that had begun
BusStoppedWhileRunning(l) ==
    ~running /\ bpc[l] \in {"get", "timeout", "got", "gather"}

\* C19: once stop() was called on a running dispatch loop, the loop begins no
\* further wait for an event (the wait in progress is its last), a loop that
\* has ended holds no event and no unfinished handler, and the loop ends.
C19_StopEndsDispatchLoop ==
    /\ [][\A l \in Loops :
            (BusStoppedWhileRunning(l) /\ bpc'[l] # bpc[l]) => bpc'[l] # "get"]_vars
    /\ [](\A l \in Loops : bpc[l] = "done" =>
              /\ cur[l] = NoEvent
              /\ \A t \in tasks : t.loop # l)
    /\ \A l \in Loops : BusStoppedWhileRunning(l) ~> (bpc[l] = "done")

\* a dispatch to a handler ended after stop() had been called, and the loop
\* has ended with an event still pending
C19_Witness ==
    /\ \E i \in 1..Len(completed) :
          completed[i].n >= 1 /\ ~completed[i].running
    /\ \A l \in Loops : bpc[l] \in {"idle", "done"}
    /\ queue # <<>>

\* C20: a loop that reads the loop condition after stop() ends there and,
\* once ended, takes nothing from the queue whatever is pending; stop()
\* clears the running flag and touches neither the queue, the subscriptions
\* nor the loop, and on a bus that is stopped already it changes nothing.
C20_StopDoesNotDrain ==
    /\ [][\A l \in Loops :
            /\ (~running /\ ~running' /\ bpc[l] \in {"timeout", "got", "gather"}
                  /\ bpc'[l] \notin {"timeout", "got", "gather"})
                    => bpc'[l] = "done"
            /\ bpc[l] = "done" => /\ bpc'[l] \in {"done", "scheduled"}
                                  /\ cur'[l] = NoEvent]_vars
    /\ [][(\A l \in Loops : bpc[l] \in {"idle", "done"}) =>
            /\ Len(queue') >= Len(queue)
            /\ delivered' = delivered]_vars
    /\ [][StopBus =>
            /\ ~running'
            /\ UNCHANGED <<queue, putters, handlers, bpc, cur, tasks>>
            /\ ~running => UNCHANGED running]_vars

\* stop() was called twice, the loop has ended and two events are pending
C20_Witness ==
    /\ busStops >= 2
    /\ \E l \in Loops : bpc[l] = "done"
    /\ \A l \in Loops : bpc[l] \in {"idle", "done"}
    /\ Len(queue) >= 2

\* how many times h stands in the list s
Occurrences(s, h) == Cardinality({i \in 1..Len(s) : s[i] = h})

\* how many times handler h has been invoked for event id
Invocations(id, h) ==
    Cardinality({n \in 1..Len(delivered) :
                    delivered[n].id = id /\ delivered[n].handler = h})

RegistrationsAreMultiset ==
    \A t \in Types, h \in Handlers :
        Occurrences(HandlersFor(handlers, t), h) = regCount[<<t, h>>]

InvokedOncePerRegistration ==
    \A l \in Loops, h \in Handlers :
        /\ (bpc[l] = "got" /\ bpc'[l] # "got") =>
              Cardinality({t \in tasks' \ tasks : t.handler = h})
                 = regCount[<<cur[l].event_type, h>>]
        /\ (bpc[l] = "gather" /\ bpc'[l] # "gather") =>
              Invocations(cur[l].id, h)
                 = Cardinality({t \in TasksOf(l) : t.handler = h})

\* C26: the registrations form a multiset: each subscribe call adds one and
\* each unsubscribe call removes one, if there is one; a handler subscribed k
\* times to a type when an event of that type is dispatched is invoked
\* exactly k times for it.
C26_RegistrationsMultiset ==
    []RegistrationsAreMultiset /\ [][InvokedOncePerRegistration]_vars

\* a handler subscribed twice was invoked twice for one event; then one
\* unsubscribe left one registration and the next event invoked it once
C26_Witness ==
    \E h \in Handlers, t \in Types, c, d \in 1..Len(completed) :
        /\ c < d
        /\ completed[c].n = 2 /\ Invocations(completed[c].id, h) = 2
        /\ completed[d].n = 1 /\ Invocations(completed[d].id, h) = 1
        /\ regCount[<<t, h>>] = 1
        /\ HandlersFor(handlers, t) = <<h>>

\* the step is a call of unsubscribe that found nothing to remove: of the
\* calls on the bus only unsubscribe leaves the registration counts, the
\* published events, the loops and the stop count as they were
UnsubscribeOfAbsent ==
    /\ nOps' = nOps + 1
    /\ regCount' = regCount
    /\ pubs' = pubs
    /\ bpc' = bpc
    /\ busStops' = busStops

\* C27: unsubscribe with a handler that is not registered for the type, or
\* with a type that was never subscribed, returns and leaves the
\* registrations of every type, the pending queue and the running flag as
\* they were.
C27_UnsubscribeAbsentNoOp ==
    [][UnsubscribeOfAbsent =>
          /\ \A t \in Types : HandlersFor(handlers', t) = HandlersFor(handlers, t)
          /\ DOMAIN handlers' = DOMAIN handlers
          /\ queue' = queue /\ putters' = putters
          /\ running' = running]_vars

\* unsubscribe was called for a handler that another one's type does not
\* hold and for a type nobody subscribed to, with an event pending
C27_Witness ==
    \E t, u \in Types, h, g \in Handlers :
        /\ t # u /\ h # g
        /\ DOMAIN handlers = {t} /\ handlers[t] = <<h>>
        /\ {<<t, g>>, <<u, h>>} \subseteq unsubscribed
        /\ regCount[<<t, h>>] = 1
        /\ nOps = 4
        /\ Len(queue) = 1

\* the handlers that the dispatch of loop l gathered when it began
Gathered(l) == {<<t.k, t.handler>> : t \in TasksOf(l)}

\* the handlers invoked so far for the event that loop l is dispatching
Invoked(l) ==
    {<<delivered[n].k, delivered[n].handler>> :
        n \in {m \in 1..Len(delivered) : delivered[m].id = cur[l].id}}

SnapshotAtDispatch ==
    \A l \in Loops :
        bpc[l] = "gather" =>
            /\ bpc'[l] = "gather" => Gathered(l)' = Gathered(l)
            /\ bpc'[l] # "gather" =>
                  /\ Invoked(l) = Gathered(l)
                  /\ bpc'[l] = (IF running THEN "get" ELSE "done")

\* C28: the handlers invoked for an event are those registered when its
\* dispatch began: whatever is subscribed or unsubscribed while they run, the
\* dispatch ends having invoked exactly them, and the loop goes on.
C28_HandlersFixedAtDispatch == [][SnapshotAtDispatch]_vars

\* while an event is being dispatched its running handler has been
\* unsubscribed and another handler has been subscribed to its type
C28_Witness ==
    \E l \in Loops, t \in tasks, g \in Handlers :
        /\ bpc[l] = "gather"
        /\ t \in TasksOf(l) /\ t.st = "running"
        /\ Occurrences(HandlersFor(handlers, cur[l].event_type), t.handler) = 0
        /\ Occurrences(HandlersFor(handlers, cur[l].event_type), g) = 1
        /\ \A u \in TasksOf(l) : u.handler # g

(***************************************************************************)
(* Claims about the PriceCollector, checked under SpecCollector (one cycle *)
(* with calls from outside) and SpecCycles (two cycles, the clock moving). *)
(***************************************************************************)
TrialsOf(v) == SelectSeq(trials, LAMBDA t : t.visit = v)
PubsOf(v) == SelectSeq(cyclePubs, LAMBDA e : e.visit = v)
GotRecord(tr) == \E k \in 1..Len(tr) : Returned(tr[k].outcome)

\* in each pass over an address the providers are tried one at a time in
\* their configured order, and none is tried after one returned a record
TrialsInOrder ==
    /\ \A v \in 1..Len(visited) :
          LET tr == TrialsOf(v)
          IN  /\ \A k \in 1..Len(tr) : tr[k].prov = k
              /\ \A k \in 1..Len(tr) : Returned(tr[k].outcome) => k = Len(tr)
    /\ cpc = "http" => pj = Len(TrialsOf(Len(visited))) + 1

\* the result recorded for an address names the provider that returned its
\* record (in the last pass over the address that obtained one)
ResultFromFirstProvider ==
    \A v \in 1..Len(visited) :
        LET tr == TrialsOf(v)
        IN  (/\ GotRecord(tr)
             /\ \A w \in (v + 1)..Len(visited) :
                   ~GotRecord(TrialsOf(w)) \/ visited[w] # visited[v])
               => \E i \in 1..Len(results) :
                      /\ results[i].addr = visited[v]
                      /\ results[i].source = Len(tr)

\* a pass publishes exactly one PriceUpdate, carrying the address and the
\* provider that returned the record as source, when a provider returned
\* one, and none otherwise
PublishFromFirstProvider ==
    \A v \in 1..Len(visited) :
        LET tr == TrialsOf(v)
            pb == PubsOf(v)
        IN  IF GotRecord(tr)
            THEN /\ Len(pb) = 1
                 /\ pb[1].provider = Len(tr)
                 /\ pb[1].addr = visited[v]
            ELSE Len(pb) = 0

\* the events of the cycle are the ones put on the bus
PublishedOnBus ==
    /\ Len(queue) >= Len(cyclePubs)
    /\ \A i \in 1..Len(cyclePubs) :
          LET e == queue[Len(queue) - Len(cyclePubs) + i]
          IN  /\ e.event_type = "price_update"
              /\ e.data.token_address = cyclePubs[i].addr
              /\ e.data.provider = cyclePubs[i].provider

\* C6 as stated: in each pass of collect_price_data over an address the
\* providers are tried one at a time in their configured order; no provider
\* is tried after one returned a record; the result recorded for the address
\* names that provider; and the pass puts exactly one PriceUpdate on the bus,
\* sourced from that provider, when a provider returned a record (so one
\* event sourced from the second when the first failed or returned nothing)
\* and none otherwise.
C6_ProviderFallbackOrder ==
    /\ TrialsInOrder
    /\ ResultFromFirstProvider
    /\ PublishFromFirstProvider
    /\ PublishedOnBus

\* C7 as stated: a cycle publishes at most one PriceUpdate per token address.
C7_OnePublishPerToken ==
    \A i, j \in 1..Len(cyclePubs) :
        i < j => cyclePubs[i].addr # cyclePubs[j].addr

\* C8 as stated: a cycle polls the tokens that were in the watchlist when it
\* started, in that order, and when its iteration is over it has polled all
\* of them and no other.
C8_CycleUsesSnapshot ==
    /\ Len(visited) <= Len(startList)
    /\ \A i \in 1..Len(visited) : visited[i] = startList[i]
    /\ cpc \in {"store", "sleep", "top", "done"} => visited = startList

\* C9 as stated: every PriceUpdate the collector publishes carries a record
\* that passes validate_price_data.
C9_PublishedRecordsValid ==
    \A i \in 1..Len(cyclePubs) : ValidatePriceData(cyclePubs[i].data)

AtCeilingAtStart(p) == cycle >= 1 /\ startCount[p] >= RateLimit

\* the provider was refused on every trial, sent nothing, and each refusal
\* was followed by the trial of the next configured provider
SkippedThroughout(p) ==
    /\ reqCount[p] <= startCount[p]
    /\ ~(cpc = "http" /\ pj = p)
    /\ \A k \in 1..Len(trials) : trials[k].prov = p =>
          /\ trials[k].outcome = "limited"
          /\ p + 1 \in Configured =>
                IF k < Len(trials)
                THEN /\ trials[k + 1].visit = trials[k].visit
                     /\ trials[k + 1].prov = p + 1
                ELSE /\ cpc \in {"prov", "http"}
                     /\ pj = p + 1
                     /\ Len(visited) = trials[k].visit

\* C10 as stated: a provider whose counter is at its ceiling when a cycle
\* starts sends no request in that cycle, its counter is not incremented,
\* and the collector goes on to the next provider.
C10_SkippedWhenAtCeiling ==
    \A p \in Configured : AtCeilingAtStart(p) => SkippedThroughout(p)

\* C10 amended: the same, as long as no rate check of the cycle has found
\* the provider's window over (more than 60 s since its last reset), which
\* resets the counter.
C10_SkippedWhileWindowOpen ==
    \A p \in Configured :
        (AtCeilingAtStart(p) /\ ~expired[p]) => SkippedThroughout(p)

\* the first provider, at its ceiling since the cycle started, was refused
\* and the second provider delivered the data
C10_Witness ==
    \E k \in 1..Len(trials) :
        /\ AtCeilingAtStart(1) /\ ~expired[1]
        /\ trials[k].prov = 1 /\ trials[k].outcome = "limited"
        /\ k < Len(trials)
        /\ trials[k + 1].prov = 2 /\ trials[k + 1].outcome = "data"

\* the PriceUpdate events of the cycle that carry the record handed to
\* storage in the i-th store call
EventsOf(i) ==
    {k \in 1..Len(cyclePubs) : /\ cyclePubs[k].addr = stored[i].addr
                               /\ cyclePubs[k].data = stored[i].data}

\* every PriceUpdate the cycle publishes is on the bus before the first
\* store call of the cycle, and none is enqueued once storing has begun
StoreFollowsPublishes ==
    /\ \A i \in 1..Len(stored) : \A k \in 1..Len(cyclePubs) :
          /\ cyclePubs[k].id <= stored[i].published
          /\ \E q \in 1..Len(queue) :
                /\ queue[q].id = cyclePubs[k].id
                /\ queue[q].event_type = "price_update"
                /\ queue[q].data.token_address = cyclePubs[k].addr
    /\ \A i \in 1..Len(stored) : stored[i].published = Len(pubs)

\* C12 as stated: for every record handed to the storage collaborator, the
\* PriceUpdate carrying that record was enqueued on the bus before the store
\* call for it.
C12_PublishBeforeStore ==
    \A i \in 1..Len(stored) : \E k \in EventsOf(i) :
        /\ cyclePubs[k].id <= stored[i].published
        /\ \E q \in 1..Len(queue) :
              /\ queue[q].id = cyclePubs[k].id
              /\ queue[q].event_type = "price_update"

\* C13: the storage collaborator is invoked once for every collected record
\* of the cycle, in the order of the result set, whether earlier stores of
\* the cycle failed or not; no record is handed to it twice; and the loop
\* ends only when the running flag was cleared.
C13_StoreFailureIsolated ==
    /\ Len(stored) <= Len(results)
    /\ \A i \in 1..Len(stored) : stored[i].addr = results[i].addr
    /\ \A i, j \in 1..Len(stored) : i < j => stored[i].addr # stored[j].addr
    /\ cpc = "store" => Len(stored) = si - 1
    /\ (cycle >= 1 /\ cpc \in {"sleep", "top", "done"})
          => Len(stored) = Len(results)
    /\ cpc = "done" => ~is_running

\* the store of the first of two records failed, the second record was
\* handed to storage after it, and the loop sleeps until its next cycle
C13_Witness ==
    /\ Len(stored) = 2
    /\ ~stored[1].ok
    /\ cpc = "sleep"
    /\ is_running

\* C14 as stated: every record handed to storage has had its PriceUpdate
\* published before, and when the cycle is over every record it published
\* has been handed to storage.
C14_PublishedIffStored ==
    /\ \A i \in 1..Len(stored) : EventsOf(i) # {}
    /\ (cycle >= 1 /\ cpc \in {"sleep", "top", "done"}) =>
          \A k \in 1..Len(cyclePubs) : \E i \in 1..Len(stored) : k \in EventsOf(i)

\* C15: a pass of the loop that raised leaves the loop in the sleep of its
\* except clause, for one interval from the failure; the loop ends only when
\* the running flag is cleared; and while the flag is set a further cycle
\* starts after the failed one.
C15_LoopSurvivesCycleError ==
    /\ [](Failed =>
            /\ cpc \in {"sleep", "top", "done"}
            /\ cpc = "sleep" =>
                  sleepUntil = failures[Len(failures)].at + CollectionInterval
            /\ cpc = "top" =>
                  now >= failures[Len(failures)].at + CollectionInterval
            /\ cpc = "done" => ~is_running)
    /\ (Failed /\ is_running /\ cycle < caps.cycles)
          ~> (~Failed \/ ~is_running)

\* a cycle is in progress after an earlier cycle failed
C15_Witness ==
    /\ \E f \in 1..Len(failures) : failures[f].cycle < cycle
    /\ cpc \in {"iter", "prov", "http", "store"}
    /\ is_running

\* the position of every start_collection coroutine of the collector
Positions == <<cpc>> \o [i \in 1..Len(parked) |-> parked[i].cpc]

\* C16 as stated: at most one start_collection coroutine of a collector is
\* inside its loop.
C16_OneCollectionLoop ==
    Cardinality({i \in 1..Len(Positions) :
                    Positions[i] \in {"top", "iter", "prov", "http", "store",
                                      "sleep"}}) <= 1

\* stop_collection was called on a loop that had begun
StoppedWhileRunning == ~is_running /\ cpc \notin {"idle", "scheduled"}

\* C17: once stop_collection was called on a running loop, no new cycle
\* starts; the loop leaves its sleep only for the loop condition and the
\* loop condition only for its end, so that it sleeps at most once more;
\* and it terminates.
C17_StopEndsLoop ==
    /\ [][StoppedWhileRunning =>
            /\ cycle' = cycle
            /\ (cpc = "sleep" /\ cpc' # cpc) => cpc' = "top"
            /\ (cpc = "top" /\ cpc' # cpc) => cpc' = "done"
            /\ (cpc # "sleep" /\ cpc' = "sleep") => cpc \in {"iter", "store"}
            /\ cpc = "done" => cpc' = "done"]_vars
    /\ StoppedWhileRunning ~> (cpc = "done")

\* the loop has ended after a stop that came while a cycle was in progress
C17_Witness ==
    /\ cpc = "done"
    /\ colStops >= 1
    /\ visited # <<>>
    /\ stored # <<>>

\* C18: stop_collection leaves the running flag cleared and touches nothing
\* else; called on a collector that is stopped already it changes nothing.
C18_StopIdempotent ==
    [][StopCollection =>
         /\ ~is_running'
         /\ UNCHANGED <<watchlist, cpc, ti, tok, pj, results, si, reqCount,
                        lastReset, queue, parked>>
         /\ ~is_running => UNCHANGED is_running]_vars

\* stop_collection was called twice and the loop has ended
C18_Witness ==
    /\ colStops >= 2
    /\ ~is_running
    /\ cpc = "done"

(***************************************************************************)
(* Claims about a provider used directly, checked under SpecProvider.      *)
(***************************************************************************)
\* C11 as stated: a get_token_price call that finds the request count at the
\* rate limit sends no request and fails with RateLimitException.
C11_RateLimitExceptionAtLimit ==
    \A i \in 1..Len(calls) :
        (calls[i].fn = "get_token_price" /\ calls[i].atLimit) =>
            /\ ~calls[i].sent
            /\ calls[i].result = "RateLimitException"

(***************************************************************************)
(* Claims about the rate counters of the cache, checked under SpecWindow   *)
(* (concurrent callers of incr_rate_limit and get_rate_limit_count).       *)
(***************************************************************************)
\* the incr_rate_limit calls on key k whose INCR has been executed
IncrReturns(k) ==
    {i \in 1..Len(rcalls) :
        rcalls[i].op = "incr" /\ rcalls[i].key = k /\ rcalls[i].got > 0}

\* the increments that found no key k and created it
Creations(k) ==
    {n \in 1..Len(rlog[k]) :
        rlog[k][n].cmd = "incr" /\ ~rlog[k][n].live}

\* key k has an expiry and the clock has reached it
WindowOver(k) == rkey[k].exp # NoTTL /\ now >= rkey[k].exp

NoLostUpdate ==
    \A k \in Keys :
        Cardinality(Creations(k)) <= 1 =>
            /\ {rcalls[i].got : i \in IncrReturns(k)}
                   = 1..Cardinality(IncrReturns(k))
            /\ \A i, j \in IncrReturns(k) :
                   rcalls[i].got = rcalls[j].got => i = j
            /\ rkey[k].val = Cardinality(IncrReturns(k))

ExpiredReadsZero ==
    \A i \in 1..Len(rcalls) :
        (/\ rcalls[i].op = "get"
         /\ rcalls[i].pc = "GET"
         /\ rcalls'[i].pc = "done"
         /\ WindowOver(rcalls[i].key)) => rcalls'[i].read = 0

\* C21: the incr_rate_limit calls made concurrently on a fresh key, N of
\* them, return the values 1..N, each exactly once, and leave the counter at
\* N; get_rate_limit_count returns 0 for a key whose window has expired.
C21_ConcurrentIncrements == []NoLostUpdate /\ [][ExpiredReadsZero]_vars

\* two calls on the same fresh key overlapped (the second was counted while
\* the first had not yet set the expiry), and a later read found the window
\* expired
C21_Witness ==
    \E k \in Keys, g \in 1..Len(rcalls) :
        /\ Cardinality(IncrReturns(k)) >= 2
        /\ Cardinality(Creations(k)) = 1
        /\ Len(rlog[k]) >= 3
        /\ rlog[k][2].cmd = "incr" /\ rlog[k][3].cmd = "expire"
        /\ rcalls[g].op = "get" /\ rcalls[g].key = k
        /\ rcalls[g].pc = "done" /\ rcalls[g].read = 0
        /\ WindowOver(k)

\* the command at place n of the log of key k and the ones before it
Earlier(k, n) == {m \in 1..(n - 1) : rlog[k][m].cmd = "incr"}

\* the EXPIRE at place n of the log of key k comes from the call whose INCR
\* created the key, and sets the expiry to ttl seconds after that INCR
SetByCreator(k, n) ==
    \E m \in Earlier(k, n) :
        /\ ~rlog[k][m].live
        /\ rlog[k][m].call = rlog[k][n].call
        /\ rlog[k][n].after.exp = rlog[k][m].at + rcalls[rlog[k][n].call].ttl
        /\ \A x \in (m + 1)..(n - 1) : rlog[k][x].cmd # "expire"

\* C22: the expiry of a rate counter is set exactly once, by the increment
\* that creates it, to window_seconds after that increment; a later increment
\* of the same window leaves the expiry as it is, and the count of a window
\* never decreases.
C22_ExpirySetAtCreation ==
    \A k \in Keys : \A n \in 1..Len(rlog[k]) :
        LET e == rlog[k][n]
        IN /\ e.cmd = "expire" => SetByCreator(k, n)
           /\ (e.cmd = "incr" /\ e.live) =>
                 /\ e.after.exp = e.before.exp
                 /\ e.after.val >= e.before.val

(***************************************************************************)
(* Claims about RateLimitMiddleware, checked under SpecLimiter (concurrent *)
(* requests of two clients).                                               *)
(***************************************************************************)
\* the INCR commands that request i has had executed
IncrsOf(i) ==
    {n \in 1..Len(rlog[rcalls[i].key]) :
        /\ rlog[rcalls[i].key][n].cmd = "incr"
        /\ rlog[rcalls[i].key][n].call = i}

\* each of them added one to the counter it found
AddedOne(i) ==
    \A n \in IncrsOf(i) :
        LET e == rlog[rcalls[i].key][n]
        IN e.after.val = (IF e.live THEN e.before.val ELSE 0) + 1

\* the requests for which dispatch has read the counter of their client
Limited == {i \in 1..Len(rcalls) : rcalls[i].op = "http" /\ rcalls[i].read >= 0}

\* C23: a request is denied exactly when the count read for its client is at
\* or above the ceiling; a denied request gets the 429 response with
\* retry_after equal to the window length, is not forwarded and does not
\* increment the counter; an admitted request increments the counter by
\* exactly one before it is forwarded.
C23_DeniedIffAtCeiling ==
    \A i \in Limited :
        LET c == rcalls[i]
        IN /\ (c.resp = "429") <=> (c.read >= Ceiling)
           /\ c.resp = "429" =>
                 /\ c.retry_after = WindowSize
                 /\ c.pc = "done"
                 /\ IncrsOf(i) = {}
           /\ c.pc = "next" \/ c.resp = "forwarded" =>
                 /\ Cardinality(IncrsOf(i)) = 1
                 /\ AddedOne(i)

\* a client at the ceiling was denied after two of its requests had been
\* admitted, counted and forwarded
C23_Witness ==
    \E i, j, d \in Limited :
        /\ i # j
        /\ rcalls[i].key = rcalls[d].key /\ rcalls[j].key = rcalls[d].key
        /\ rcalls[i].resp = "forwarded" /\ rcalls[j].resp = "forwarded"
        /\ rcalls[d].resp = "429" /\ rcalls[d].read = Ceiling

(***************************************************************************)
(* Claims about the application's lifespan, checked under SpecApp.         *)
(***************************************************************************)
\* C24: at shutdown the collector is asked to stop (stop_collection) before
\* the bus is asked to stop (event_bus.stop): a shutdown that has stopped the
\* bus has stopped the collector before.
C24_CollectorStoppedBeforeBus ==
    /\ app \in {"dispose", "closed"} => colStops >= 1
    /\ busStops >= 1 => colStops >= 1

(***************************************************************************)
(* Further claims about the PriceCollector, checked under SpecCollector.   *)
(***************************************************************************)
\* the passes of the cycle that are over
PassesOver ==
    {v \in 1..Len(visited) :
        v < Len(visited) \/ cpc \in {"iter", "store", "sleep", "top", "done"}}

\* a provider returned a record in pass v
Succeeded(v) == GotRecord(TrialsOf(v))

\* the iteration of collect_price_data over the addresses has ended
IterationOver == cycle >= 1 /\ cpc \in {"store", "sleep"}

InResults(a) == \E i \in 1..Len(results) : results[i].addr = a

SoftFailure ==
    /\ \A v \in PassesOver :
          /\ Succeeded(v) <=> Len(PubsOf(v)) >= 1
          /\ \A k \in 1..Len(TrialsOf(v)) : TrialsOf(v)[k].prov = k
    /\ IterationOver =>
          /\ \A v \in 1..Len(visited) :
                InResults(visited[v]) <=>
                    \E w \in 1..Len(visited) :
                        visited[w] = visited[v] /\ Succeeded(w)
          /\ Len(cyclePubs) = Cardinality({v \in 1..Len(visited) : Succeeded(v)})

IterationEndsAtListEnd ==
    (cpc = "iter" /\ cpc' \in {"store", "sleep"}) => ti >= Len(watchlist)

\* C25: in a cycle an address is absent from the results, and no PriceUpdate
\* is published for it, exactly when every provider failed or returned no
\* data for it; no provider is tried twice for it, the iteration goes on to
\* the end of the list whatever happened to an address, and the number of
\* events the cycle published is the number of addresses for which a
\* provider succeeded.
C25_SoftFailurePerAddress == []SoftFailure /\ [][IterationEndsAtListEnd]_vars

\* the addresses that stand in the list l
Members(l) == {l[i] : i \in 1..Len(l)}

NoAddressTwice == Cardinality(Members(watchlist)) = Len(watchlist)

WatchlistCalls ==
    \A a \in Addrs :
        /\ AddToken(a) =>
              /\ a \in Members(watchlist) => watchlist' = watchlist
              /\ Members(watchlist') = Members(watchlist) \cup {a}
        /\ RemoveToken(a) =>
              /\ a \notin Members(watchlist) => watchlist' = watchlist
              /\ Members(watchlist') = Members(watchlist) \ {a}

\* C29: the watchlist never holds an address twice; adding an address that
\* is in it and removing one that is not leave it as it was; an added address
\* is in it and a removed one is not.
C29_WatchlistIsSet == []NoAddressTwice /\ [][WatchlistCalls]_vars

\* three calls made while the collection loop runs have left one address in
\* the watchlist: one of them removed an address or found nothing to do
C29_Witness ==
    /\ nColOps >= 3
    /\ colStops = 0
    /\ Len(watchlist) = 1
    /\ cpc \notin {"idle", "scheduled", "done"}

(***************************************************************************)
(* Claims about DataCleaner.validate_price_data, checked under             *)
(* SpecValidator.                                                          *)
(***************************************************************************)
Has(f) == f \in DOMAIN rec /\ IsNumber(rec[f])

\* high >= max(open, close) >= min(open, close) >= low
Ordered ==
    /\ \A f \in OHLCFields : Has(f)
    /\ Val(rec["high_price"]) >= Val(rec["open_price"])
    /\ Val(rec["high_price"]) >= Val(rec["close_price"])
    /\ Val(rec["low_price"]) <= Val(rec["open_price"])
    /\ Val(rec["low_price"]) <= Val(rec["close_price"])

\* C30: the validator returns True or False for every record; it accepts a
\* record only if the price is present and > 0 and, when open, high, low and
\* close are all present, they are ordered; it rejects a record whose price
\* is 0 or missing and a record whose high_price is below its low_price.
C30_ValidatorContract ==
    /\ verdict \in {"none", "accepted", "rejected"}
    /\ verdict = "accepted" =>
          /\ Has("price") /\ Val(rec["price"]) > 0
          /\ OHLCFields \subseteq DOMAIN rec => Ordered
    /\ verdict # "none" =>
          /\ "price" \notin DOMAIN rec => verdict = "rejected"
          /\ (Has("price") /\ Val(rec["price"]) = 0) => verdict = "rejected"
          /\ (/\ Has("high_price") /\ Has("low_price")
              /\ Val(rec["high_price"]) < Val(rec["low_price"]))
                => verdict = "rejected"

(***************************************************************************)
(* Claims about cleaning followed by validation, checked under SpecCleaner.*)
(***************************************************************************)
\* the key of the 24h volume in a record (dexscreener.py:83)
Volume24h == "volume_24h"

\* C31: a record whose 24h volume is present and negative is rejected by
\* validation: every accepted record has a 24h volume >= 0.
C31_AcceptedVolumeNonNegative ==
    (/\ verdict = "accepted"
     /\ Volume24h \in DOMAIN rec
     /\ rec[Volume24h] # None)
        => IsNumber(rec[Volume24h]) /\ Val(rec[Volume24h]) >= 0

(***************************************************************************)
(* Claims about the Event object, checked under SpecEvent.                 *)
(***************************************************************************)
\* the event as publish() was given it
Published(id) ==
    [id |-> id, event_type |-> pubs[id].event_type, source |-> "producer",
     data |-> NoEvent.data]

\* C32: an Event is immutable once constructed: whatever the handlers of a
\* dispatch do, the event a dispatch loop holds, which is the object every
\* handler of the dispatch reads, and every event in the queue is as it was
\* published, in its id, type, source and payload mapping.
C32_EventImmutable ==
    /\ \A l \in Loops : cur[l] # NoEvent => cur[l] = Published(cur[l].id)
    /\ \A i \in 1..Len(queue) : queue[i] = Published(queue[i].id)

(***************************************************************************)
(* Claims about loss and duplication of events, checked under SpecBusFair. *)
(***************************************************************************)
Dispatched(i) == \E j \in 1..Len(completed) : completed[j].id = i

\* where the event with id i is: pending, held by a loop, or dispatched
Places(i) ==
    Cardinality({j \in 1..Len(queue) : queue[j].id = i})
      + Cardinality({l \in Loops : cur[l].id = i})
      + Cardinality({j \in 1..Len(completed) : completed[j].id = i})

InvocationsOf(i) == {a \in 1..Len(delivered) : delivered[a].id = i}

\* every published event is in exactly one place, and a dispatched event was
\* delivered once to each of the registrations its dispatch found
NoEventLostOrTwice ==
    /\ \A i \in 1..Len(pubs) : Places(i) = 1
    /\ \A j \in 1..Len(completed) :
          /\ Cardinality(InvocationsOf(completed[j].id)) = completed[j].n
          /\ \A a, b \in InvocationsOf(completed[j].id) :
                delivered[a].k = delivered[b].k => a = b

\* C33: no event is lost or duplicated while the dispatch loop runs: every
\* published event is pending, held by the loop or dispatched, never in two
\* places; a dispatched event was delivered exactly once to each registration
\* its dispatch found; and an event published to a bus that has a dispatch
\* loop is dispatched unless stop() is called, provided every handler ends.
C33_NoEventLostOrDuplicated ==
    /\ []NoEventLostOrTwice
    /\ \A i \in 1..MaxOps :
          (Len(pubs) >= i /\ Alive # {} /\ ~stopCalled)
              ~> (Dispatched(i) \/ stopCalled)

\* two events published to a running loop that was never stopped have both
\* been delivered to a handler
C33_Witness ==
    /\ ~stopCalled
    /\ Len(pubs) >= 2
    /\ \A i \in 1..Len(pubs) : Dispatched(i)
    /\ \E j \in 1..Len(completed) : completed[j].n >= 1

(***************************************************************************)
(* Claims about stop() racing with a scheduled start(), checked under      *)
(* SpecBusFair.                                                            *)
(***************************************************************************)
\* start() was handed to create_task, has not run its first step, and stop()
\* has not been called yet
ScheduledBeforeStop(l) == bpc[l] = "scheduled" /\ ~stopCalled

\* C34: a stop request is never lost to the start-up race: when stop() is
\* called on a bus whose start() is scheduled as a task, also before the
\* first step of that task, the dispatch loop of that task comes to its end.
C34_StopNotLostAtStartup ==
    \A l \in Loops :
        [](ScheduledBeforeStop(l) => (<>stopCalled => <>(bpc[l] = "done")))

(***************************************************************************)
(* Claims about start() called twice, checked under SpecTwoLoops.          *)
(***************************************************************************)
\* the dispatch loops that take events from the queue
Consumers == {l \in Loops : bpc[l] \in {"get", "timeout", "got", "gather"}}

\* C35: start() on a bus whose dispatch loop is running creates no second
\* consumer of the queue: at every moment at most one dispatch loop takes
\* events from it, and no event is dispatched while the handlers of another
\* are unfinished.
C35_OneConsumer ==
    /\ Cardinality(Consumers) <= 1
    /\ C4_OneEventAtATime

(***************************************************************************)
(* Claims about the expiry of the rate counters, checked under SpecExpiry. *)
(***************************************************************************)
\* no call is between its commands
CallsOver == \A i \in 1..Len(rcalls) : rcalls[i].pc \notin {"INCR", "EXPIRE", "GET"}

\* C36: every rate counter expires: once the incr_rate_limit calls made so
\* far have returned, raised or been cancelled, also when an expire step
\* failed or a caller was interrupted between the increment and the expire,
\* no counter key exists without an expiry.
C36_EveryCounterExpires ==
    CallsOver => \A k \in Keys : Live(k) => rkey[k].exp # NoTTL

(***************************************************************************)
(* Claims about over-admission by the middleware, checked under SpecBurst. *)
(***************************************************************************)
\* C37: the over-admission is bounded by the concurrency: in a run in which
\* at most n requests of the client are at once between their count read and
\* their increment, the client's counter never exceeds ceiling + n - 1; for
\* sequential requests (n = 1) it never exceeds the ceiling.
C37_OverAdmissionBounded ==
    \A n \in 1..MaxBurst :
        [](Cardinality(BetweenReadAndIncr(Client)) <= n)
            => [](Live(Client) => rkey[Client].val <= Ceiling + n - 1)

\* two requests that were between read and increment at once took the
\* counter one above the ceiling, and a later request was denied
C37_Witness ==
    /\ Live(Client)
    /\ rkey[Client].val = Ceiling + 1
    /\ \E i \in 1..Len(rcalls) : rcalls[i].resp = "429"

(***************************************************************************)
(* Claims about the request count of a provider under concurrent calls,    *)
(* checked under SpecProvider.                                             *)
(***************************************************************************)
\* the request of call i got a successful HTTP response with outcome o: the
\* count goes up by one; it failed: the count stays
CountedOncePerResponse ==
    \A i \in 1..MaxCalls, o \in Outcomes :
        (PriceResponse(i, o) \/ InfoResponse(i, o) \/ TrendingResponse(i, o)) =>
            reqCount'[Dexscreener] =
                reqCount[Dexscreener] + (IF o = "http_error" THEN 0 ELSE 1)

\* a call refused by the rate check leaves the count as it is
RefusedLeavesCount ==
    ((GetTokenPrice \/ GetTokenInfo \/ GetTrendingTokens)
        /\ ~CheckRateLimit(Dexscreener)) => reqCount' = reqCount

\* C38: the request count of a provider never exceeds its rate_limit,
\* whatever the interleaving of the calls made on it; it goes up by exactly
\* one for a request that got a successful HTTP response and is unchanged by
\* a request that failed or was refused by the rate check.
C38_CountWithinRateLimit ==
    /\ [](reqCount[Dexscreener] <= RateLimit)
    /\ [][CountedOncePerResponse /\ RefusedLeavesCount]_vars
====
